---- MODULE Spec2Model ----
(***************************************************************************)
(* Pluton: a static analyzer for Solana/Anchor programs.                   *)
(*                                                                         *)
(* The model follows SolanaAnalyzer::analyze (src/src/lib.rs): load the    *)
(* description catalog, record the overflow-checks Info, then for every    *)
(* discovered file read it, parse it and walk the syntax tree with a fresh *)
(* AnchorVisitor (src/src/visitor.rs).  The walk is modelled call by call: *)
(* the order in which syn's traversal invokes the visitor's methods is a   *)
(* function of the tree (the *Events operators); each invocation is one    *)
(* action that applies the method's body to the visitor and the result.    *)
(* Texts are TLA+ strings and every `contains` of the code is a real       *)
(* substring test on the text the code renders.                            *)
(***************************************************************************)
EXTENDS Integers, Sequences, FiniteSets, TLC

\* ---------------------------------------------------------------- bounds
\* Source files discovered in one run.
MaxFiles == 2
\* Items visited in one run (top-level items over all files).
MaxItems == 2
\* Statements in a generated function body.
MaxStmts == 2

\* ------------------------------------------------------------------ text
\* str::contains(pat): pat occurs in s as a contiguous run of characters.
Contains(s, pat) ==
    \E i \in 1..(Len(s) - Len(pat) + 1) : SubSeq(s, i, i + Len(pat) - 1) = pat

\* str::ends_with(pat)
EndsWith(s, pat) ==
    /\ Len(pat) <= Len(s)
    /\ SubSeq(s, Len(s) - Len(pat) + 1, Len(s)) = pat

RECURSIVE JoinFrom(_, _, _)
JoinFrom(parts, sep, i) ==
    IF i > Len(parts) THEN ""
    ELSE IF i = Len(parts) THEN parts[i]
    ELSE parts[i] \o sep \o JoinFrom(parts, sep, i + 1)

\* The texts of parts separated by sep.
Join(parts, sep) == JoinFrom(parts, sep, 1)

\* TokenStream's Display: the tokens separated by one space (a joint
\* punctuation pair such as :: or == is one token here).
TokenString(tokens) == Join(tokens, " ")

\* str::split(ch) collected into a vector: the pieces of s between
\* consecutive occurrences of ch, empty pieces included.
Split(s, ch) ==
    LET cuts   == {0} \cup {i \in 1..Len(s) : SubSeq(s, i, i) = ch} \cup {Len(s) + 1}
        Cut(k) == CHOOSE i \in cuts : Cardinality({j \in cuts : j < i}) = k - 1
    IN [k \in 1..(Cardinality(cuts) - 1) |-> SubSeq(s, Cut(k) + 1, Cut(k + 1) - 1)]

UpperCase == "ABCDEFGHIJKLMNOPQRSTUVWXYZ"
LowerCase == "abcdefghijklmnopqrstuvwxyz"

\* char::to_lowercase on the letters of the texts analysed here.
LowerChar(ch) ==
    IF \E i \in 1..Len(UpperCase) : SubSeq(UpperCase, i, i) = ch
    THEN LET i == CHOOSE i \in 1..Len(UpperCase) : SubSeq(UpperCase, i, i) = ch
         IN SubSeq(LowerCase, i, i)
    ELSE ch

RECURSIVE LowerFrom(_, _)
LowerFrom(s, i) ==
    IF i > Len(s) THEN "" ELSE LowerChar(SubSeq(s, i, i)) \o LowerFrom(s, i + 1)

\* str::to_lowercase
to_lowercase(s) == LowerFrom(s, 1)

\* ------------------------------------------------------------ syntax tree
\* syn::Expr, the variants the programs under analysis use.
Path(segs)                 == [k |-> "Path", segs |-> segs]
Lit(digits)                == [k |-> "Lit", digits |-> digits]
FieldE(base, member)       == [k |-> "Field", base |-> base, member |-> member]
MethodCall(recv, m, args)  == [k |-> "MethodCall", receiver |-> recv, method |-> m, args |-> args]
Call(func, args)           == [k |-> "Call", func |-> func, args |-> args]
Binary(op, l, r)           == [k |-> "Binary", op |-> op, left |-> l, right |-> r]
Cast(e, ty)                == [k |-> "Cast", expr |-> e, ty |-> ty]
Paren(e)                   == [k |-> "Paren", expr |-> e]
IfE(cond, then_branch)     == [k |-> "If", cond |-> cond, then_branch |-> then_branch]

\* syn::Stmt
ExprStmt(e)                == [k |-> "Expr", expr |-> e]
Local(pat, e)              == [k |-> "Local", pat |-> pat, init |-> e]
ItemStmt(item)             == [k |-> "Item", item |-> item]

\* syn::Item
ItemFn(name, params, body) == [k |-> "Fn", ident |-> name, inputs |-> params, block |-> body]
ItemStruct(name, attrs, fields) ==
    [k |-> "Struct", ident |-> name, attrs |-> attrs, fields |-> fields]
ItemEnum(name)             == [k |-> "Enum", ident |-> name]
ItemMod(name, items)       == [k |-> "Mod", ident |-> name, items |-> items]
ItemImpl(ty, methods)      == [k |-> "Impl", self_ty |-> ty, items |-> methods]

\* syn::Field of a struct: attributes, name and type (as tokens).
StructField(attrs, name, ty) == [attrs |-> attrs, ident |-> [some |-> TRUE, val |-> name], ty |-> ty]
\* syn::Attribute: #[path(args)] with args as tokens; a doc comment is
\* #[doc = "text"].
Attr(path, args)           == [path |-> path, args |-> args]

BinOpToken(op) ==
    CASE op = "Add" -> "+"
      [] op = "Sub" -> "-"
      [] op = "Mul" -> "*"
      [] op = "Div" -> "/"
      [] op = "Eq"  -> "=="
      [] op = "Ne"  -> "!="
      [] op = "And" -> "&&"
      [] op = "Lt"  -> "<"

\* ToTokens followed by to_string(): the text the checks search.  Tokens
\* are separated by single spaces; a parenthesis or bracket group has no
\* inner padding, a brace group has.
RECURSIVE ExprText(_), ExprsText(_, _), StmtsText(_, _), ItemText(_)
ExprText(e) ==
    CASE e.k = "Path"       -> Join(e.segs, " :: ")
      [] e.k = "Lit"        -> e.digits
      [] e.k = "Field"      -> ExprText(e.base) \o " . " \o e.member
      [] e.k = "MethodCall" -> ExprText(e.receiver) \o " . " \o e.method
                                 \o " (" \o ExprsText(e.args, 1) \o ")"
      [] e.k = "Call"       -> ExprText(e.func) \o " (" \o ExprsText(e.args, 1) \o ")"
      [] e.k = "Binary"     -> ExprText(e.left) \o " " \o BinOpToken(e.op)
                                 \o " " \o ExprText(e.right)
      [] e.k = "Cast"       -> ExprText(e.expr) \o " as " \o TokenString(e.ty)
      [] e.k = "Paren"      -> "(" \o ExprText(e.expr) \o ")"
      [] e.k = "If"         -> "if " \o ExprText(e.cond) \o " "
                                 \o (IF e.then_branch = <<>> THEN "{ }"
                                     ELSE "{ " \o StmtsText(e.then_branch, 1) \o " }")

ExprsText(es, i) ==
    IF i > Len(es) THEN ""
    ELSE IF i = Len(es) THEN ExprText(es[i])
    ELSE ExprText(es[i]) \o " , " \o ExprsText(es, i + 1)

StmtsText(ss, i) ==
    IF i > Len(ss) THEN ""
    ELSE LET s == ss[i]
             t == CASE s.k = "Expr"  -> IF s.expr.k = "If" THEN ExprText(s.expr)
                                        ELSE ExprText(s.expr) \o " ;"
                    [] s.k = "Local" -> "let " \o s.pat \o " = " \o ExprText(s.init) \o " ;"
                    [] s.k = "Item"  -> ItemText(s.item)
         IN IF i = Len(ss) THEN t ELSE t \o " " \o StmtsText(ss, i + 1)

\* Block's tokens: a brace group.
BlockText(ss) == IF ss = <<>> THEN "{ }" ELSE "{ " \o StmtsText(ss, 1) \o " }"

ItemText(it) ==
    CASE it.k = "Fn" -> "fn " \o it.ident \o " ("
                          \o Join([i \in 1..Len(it.inputs) |-> it.inputs[i] \o " : u8"], " , ")
                          \o ") " \o BlockText(it.block)
      [] OTHER       -> it.k \o " " \o it.ident

\* An attribute's tokens: # [path (args)], or # [path = value] for doc.
AttrText(a) ==
    IF a.path = "doc" THEN "# [doc = " \o TokenString(a.args) \o "]"
    ELSE IF a.args = <<>> THEN "# [" \o a.path \o "]"
    ELSE "# [" \o a.path \o " (" \o TokenString(a.args) \o ")]"


\* ------------------------------------------------------------- traversal
\* The calls syn's traversal makes on the visitor, in order.  An event is
\* one call of a method AnchorVisitor overrides (or of check_function's
\* tail, which runs when the body's traversal returns).
Ev(kind, node) == [ev |-> kind, node |-> node]

RECURSIVE VisitExprEvents(_), WalkExprEvents(_), ExprListEvents(_, _),
          BlockEvents(_, _), ItemEvents(_), ItemListEvents(_, _), MethodListEvents(_, _)

\* A variant in which the override hands a binary node itself, not its
\* operands, to syn::visit::visit_expr.
VisitExprEvents_handing_self(e) ==
    <<Ev("visit_expr", e)>> \o
    (CASE e.k = "Lit" -> <<>>
       [] OTHER       -> WalkExprEvents(e))

\* self.visit_expr(e): the override runs its checks on e, then descends.
\* For a binary node it hands the operands to syn::visit::visit_expr (the
\* free function), for a literal it stops, otherwise it hands e itself.
VisitExprEvents(e) ==
    <<Ev("visit_expr", e)>> \o
    (CASE e.k = "Binary" -> WalkExprEvents(e.left) \o WalkExprEvents(e.right)
       [] e.k = "Lit"    -> <<>>
       [] OTHER          -> WalkExprEvents(e))

\* syn::visit::visit_expr(self, e): dispatch on the variant to
\* self.visit_expr_<variant>, whose default visits the children with
\* self.visit_expr.  visit_expr_binary and visit_expr_lit are overridden.
WalkExprEvents(e) ==
    CASE e.k = "Binary"     -> <<Ev("visit_expr_binary", e)>>
                                 \o VisitExprEvents(e.left) \o VisitExprEvents(e.right)
      [] e.k = "Lit"        -> <<Ev("visit_expr_lit", e)>>
      [] e.k = "Path"       -> <<>>
      [] e.k = "Field"      -> VisitExprEvents(e.base)
      [] e.k = "MethodCall" -> VisitExprEvents(e.receiver) \o ExprListEvents(e.args, 1)
      [] e.k = "Call"       -> VisitExprEvents(e.func) \o ExprListEvents(e.args, 1)
      [] e.k = "Cast"       -> VisitExprEvents(e.expr)
      [] e.k = "Paren"      -> VisitExprEvents(e.expr)
      [] e.k = "If"         -> VisitExprEvents(e.cond) \o BlockEvents(e.then_branch, 1)

ExprListEvents(es, i) ==
    IF i > Len(es) THEN <<>> ELSE VisitExprEvents(es[i]) \o ExprListEvents(es, i + 1)

\* syn::visit::visit_block: every statement in order.
BlockEvents(ss, i) ==
    IF i > Len(ss) THEN <<>>
    ELSE (CASE ss[i].k = "Expr"  -> VisitExprEvents(ss[i].expr)
            [] ss[i].k = "Local" -> VisitExprEvents(ss[i].init)
            [] ss[i].k = "Item"  -> ItemEvents(ss[i].item))
         \o BlockEvents(ss, i + 1)

\* self.visit_item(item): the override dispatches functions, structs and
\* enums to their checks and recurses into every other item with syn's
\* default traversal (a module's items, an impl block's method bodies).
ItemEvents(it) ==
    CASE it.k = "Fn"     -> <<Ev("check_function", it)>> \o BlockEvents(it.block, 1)
                              \o <<Ev("check_function_exit", it)>>
      [] it.k = "Struct" -> <<Ev("check_struct", it)>>
      [] it.k = "Enum"   -> <<Ev("check_enum", it)>>
      [] it.k = "Mod"    -> <<Ev("visit_item", it)>> \o ItemListEvents(it.items, 1)
      [] it.k = "Impl"   -> <<Ev("visit_item", it)>> \o MethodListEvents(it.items, 1)

ItemListEvents(its, i) ==
    IF i > Len(its) THEN <<>> ELSE ItemEvents(its[i]) \o ItemListEvents(its, i + 1)

\* A variant in which a method is checked like a function item.
MethodListEvents_checked(ms, i) ==
    IF i > Len(ms) THEN <<>>
    ELSE <<Ev("check_function", ms[i])>> \o BlockEvents(ms[i].block, 1)
           \o <<Ev("check_function_exit", ms[i])>> \o MethodListEvents(ms, i + 1)

\* syn::visit::visit_impl_item_fn: a method's block, no check_function.
MethodListEvents(ms, i) ==
    IF i > Len(ms) THEN <<>> ELSE BlockEvents(ms[i].block, 1) \o MethodListEvents(ms, i + 1)

\* ------------------------------------------------------- finding model
None    == [some |-> FALSE]
Some(x) == [some |-> TRUE, val |-> x]

\* AnalysisResult::default()
DefaultResult ==
    [vulnerabilities |-> <<>>, warnings |-> <<>>, info |-> <<>>,
     vulnerability_descriptions |-> <<>>]

Location(file, line, column) == [file |-> file, line |-> line, column |-> column]

\* The visitor works on c = [v |-> the AnchorVisitor's own fields,
\* r |-> the AnalysisResult it holds by mutable reference].
HereOf(c) == Location(c.v.current_file, c.v.current_line, c.v.current_column)

\* A variant that takes the suggestion from the catalog when there is one.
add_vulnerability_catalogued(c, severity, description, suggestion) ==
    [c EXCEPT !.r.vulnerabilities = Append(@,
        [severity |-> severity, description |-> description,
         location |-> HereOf(c),
         suggestion |-> IF DOMAIN c.v.vulnerability_descriptions = {}
                        THEN suggestion ELSE "See the catalog"])]

\* A variant that reports a description once in a run.
add_vulnerability_once(c, severity, description, suggestion) ==
    IF \E i \in DOMAIN c.r.vulnerabilities :
           c.r.vulnerabilities[i].description = description
    THEN c
    ELSE [c EXCEPT !.r.vulnerabilities = Append(@,
            [severity |-> severity, description |-> description,
             location |-> HereOf(c), suggestion |-> suggestion])]

add_vulnerability(c, severity, description, suggestion) ==
    [c EXCEPT !.r.vulnerabilities = Append(@,
        [severity |-> severity, description |-> description,
         location |-> HereOf(c), suggestion |-> suggestion])]

\* A variant that puts the newest warning first.
add_warning_front(c, description, suggestion) ==
    [c EXCEPT !.r.warnings =
        <<[description |-> description, location |-> HereOf(c),
           suggestion |-> suggestion]>> \o @]

add_warning(c, description, suggestion) ==
    [c EXCEPT !.r.warnings = Append(@,
        [description |-> description, location |-> HereOf(c),
         suggestion |-> suggestion])]

add_info(c, description) ==
    [c EXCEPT !.r.info = Append(@,
        [description |-> description, location |-> HereOf(c)])]

\* Span::source_text() of a node: the node's snippet when the span carries
\* one.
SourceText(node) == IF "src" \in DOMAIN node THEN Some(node.src) ELSE None

\* Number of newline characters in s.
CountNewlines(s) == Cardinality({i \in 1..Len(s) : SubSeq(s, i, i) = "\n"})

\* A variant that stops at the first occurrence of the snippet.
update_location_from_span_first(c, node) ==
    LET st == SourceText(node) IN
    IF ~st.some THEN c
    ELSE LET fc  == c.v.file_content
             occ == {i \in 1..(Len(fc) - Len(st.val) + 1) :
                        SubSeq(fc, i, i + Len(st.val) - 1) = st.val}
         IN IF occ = {} THEN c
            ELSE LET first == CHOOSE i \in occ : \A j \in occ : i <= j
                 IN [c EXCEPT !.v.current_line =
                        CountNewlines(SubSeq(fc, 1, first - 1)) + 1]

\* The loop finds every occurrence of the snippet in turn and keeps the
\* line of the last one; current_line changes only if there was one.
update_location_from_span(c, node) ==
    LET st == SourceText(node) IN
    IF ~st.some THEN c
    ELSE LET fc  == c.v.file_content
             occ == {i \in 1..(Len(fc) - Len(st.val) + 1) :
                        SubSeq(fc, i, i + Len(st.val) - 1) = st.val}
         IN IF occ = {} THEN c
            ELSE LET last == CHOOSE i \in occ : \A j \in occ : j <= i
                 IN [c EXCEPT !.v.current_line =
                        CountNewlines(SubSeq(fc, 1, last - 1)) + 1]

\* The UTF-8 length of a character.
Utf8Len(ch) == IF ch = "é" THEN 2 ELSE 1

\* update_location_from_span panics.  Every turn of the loop slices
\* file_content at last_pos, one byte after the start of the match found
\* before: an empty snippet matches at the end of the text, and last_pos is
\* then past the end; a snippet whose first character takes more than one
\* byte leaves last_pos inside that character.
update_location_panics(c, node) ==
    LET st == SourceText(node) IN
    /\ st.some
    /\ \/ st.val = ""
       \/ /\ Contains(c.v.file_content, st.val)
          /\ Utf8Len(SubSeq(st.val, 1, 1)) > 1

\* ------------------------------------------------------- function checks
check_function_naming_conventions(c, fn_name) ==
    LET c1 == IF Contains(fn_name, "validate")
              THEN add_warning(c,
                     "Function contains 'validate' in name - ensure proper validation",
                     "Consider using Anchor's built-in validation attributes")
              ELSE c
        c2 == IF Contains(fn_name, "error")
              THEN add_warning(c1,
                     "Function contains 'error' in name - ensure proper error handling",
                     "Use Anchor's error handling macros and proper error types")
              ELSE c1
    IN IF Contains(fn_name, "access")
       THEN add_warning(c2,
              "Function contains 'access' in name - ensure proper access control",
              "Implement proper access control checks using Anchor's constraints")
       ELSE c2

ReinitDescription == "Initialization function without reinitialization check"

check_for_init_checks(c, item_fn) ==
    LET fn_body == BlockText(item_fn.block)
        has_init_check == /\ Contains(fn_body, "is_initialized")
                          /\ (Contains(fn_body, "if") \/ Contains(fn_body, "assert"))
    IN IF ~has_init_check
       THEN add_vulnerability(c, "High", ReinitDescription,
              "Add an is_initialized check to prevent reinitialization attacks. In native Rust, verify an is_initialized flag before setting data. In Anchor, use the init constraint.")
       ELSE c

\* A variant that keeps the remaining-accounts flags of the function
\* visited before.
check_function_keeping_flags(c, item_fn) ==
    LET c0 == update_location_from_span(update_location_from_span(c, item_fn), item_fn)
        fn_name == item_fn.ident
        c1 == [c0 EXCEPT !.v.current_function_is_init =
                             \/ Contains(fn_name, "initialize")
                             \/ Contains(fn_name, "init")
                             \/ Contains(fn_name, "create")]
        c2 == check_function_naming_conventions(c1, fn_name)
    IN [c2 EXCEPT !.v.current_function_has_bump_param =
            \E i \in DOMAIN item_fn.inputs : Contains(item_fn.inputs[i], "bump")]

\* check_function up to the traversal of the body (visitor.rs 252-286),
\* entered from visit_item, which resolves the item's position first.
check_function(c, item_fn) ==
    LET c0 == update_location_from_span(update_location_from_span(c, item_fn), item_fn)
        fn_name == item_fn.ident
        c1 == [c0 EXCEPT !.v.has_remaining_accounts_access = FALSE,
                         !.v.has_remaining_accounts_validation = FALSE,
                         !.v.current_function_is_init =
                             \/ Contains(fn_name, "initialize")
                             \/ Contains(fn_name, "init")
                             \/ Contains(fn_name, "create")]
        c2 == check_function_naming_conventions(c1, fn_name)
    IN [c2 EXCEPT !.v.current_function_has_bump_param =
            \E i \in DOMAIN item_fn.inputs : Contains(item_fn.inputs[i], "bump")]

RemainingDescription == "Accessing remaining_accounts without proper validation"
ReloadDescription    == "Account data accessed after CPI without reload()"
BumpDescription      == "Possible bump seed canonicalization vulnerability detected"

\* A variant that checks reinitialization before the remaining accounts.
check_function_exit_reinit_first(c, item_fn) ==
    LET c1 == IF c.v.current_function_is_init
              THEN check_for_init_checks(c, item_fn)
              ELSE c
        c2 == IF /\ c1.v.has_remaining_accounts_access
                 /\ ~c1.v.has_remaining_accounts_validation
              THEN add_vulnerability(c1, "High", RemainingDescription,
                     "Always validate remaining accounts before using them. Check account ownership, type, and other constraints.")
              ELSE c1
        c3 == [c2 EXCEPT !.v.current_function_is_init = FALSE,
                         !.v.cpi_performed = FALSE,
                         !.v.accessed_accounts = <<>>]
        c6 == IF /\ c3.v.non_canonical_bump_detected
                 /\ c3.v.current_function_has_bump_param
              THEN add_vulnerability(c3, "Critical", BumpDescription,
                     "Always use Pubkey::find_program_address() instead of create_program_address() to ensure canonical bump is used, or validate any user-provided bump against the canonical bump.")
              ELSE c3
    IN [c6 EXCEPT !.v.non_canonical_bump_detected = FALSE,
                  !.v.current_function_has_bump_param = FALSE]

\* check_function after the traversal of the body (visitor.rs 288-332).
check_function_exit(c, item_fn) ==
    LET c1 == IF /\ c.v.has_remaining_accounts_access
                 /\ ~c.v.has_remaining_accounts_validation
              THEN add_vulnerability(c, "High", RemainingDescription,
                     "Always validate remaining accounts before using them. Check account ownership, type, and other constraints.")
              ELSE c
        c2 == IF c1.v.current_function_is_init
              THEN check_for_init_checks(c1, item_fn)
              ELSE c1
        \* the CPI tracking is cleared before it is tested
        c3 == [c2 EXCEPT !.v.current_function_is_init = FALSE,
                         !.v.cpi_performed = FALSE,
                         !.v.accessed_accounts = <<>>]
        c4 == IF c3.v.cpi_performed /\ c3.v.accessed_accounts # <<>>
              THEN add_vulnerability(c3, "Critical", ReloadDescription,
                     "After performing a CPI, call account.reload() before accessing account data to prevent tampering. Other programs can modify account data during a CPI.")
              ELSE c3
        c5 == [c4 EXCEPT !.v.cpi_performed = FALSE, !.v.accessed_accounts = <<>>]
        c6 == IF /\ c5.v.non_canonical_bump_detected
                 /\ c5.v.current_function_has_bump_param
              THEN add_vulnerability(c5, "Critical", BumpDescription,
                     "Always use Pubkey::find_program_address() instead of create_program_address() to ensure canonical bump is used, or validate any user-provided bump against the canonical bump.")
              ELSE c5
    IN [c6 EXCEPT !.v.non_canonical_bump_detected = FALSE,
                  !.v.current_function_has_bump_param = FALSE]

\* ----------------------------------------------------- expression checks
IsArith(op) == op \in {"Add", "Sub", "Mul"}

ArithName(op) ==
    CASE op = "Add" -> "addition"
      [] op = "Sub" -> "subtraction"
      [] op = "Mul" -> "multiplication"

ArithVulnDescription(op) ==
    "Potential arithmetic overflow/underflow detected in " \o ArithName(op) \o " operation"
ArithInfoDescription(op) ==
    "Arithmetic operation with runtime overflow protection: " \o ArithName(op) \o " operation"

\* A variant that rates unchecked arithmetic Medium.
check_arithmetic_operation_medium(c, bin_expr) ==
    IF ~IsArith(bin_expr.op) THEN c
    ELSE IF ~c.v.has_overflow_checks
    THEN add_vulnerability(c, "Medium", ArithVulnDescription(bin_expr.op),
           "Use checked arithmetic operations (checked_add, checked_sub, checked_mul) or enable overflow-checks = true in Cargo.toml")
    ELSE add_info(c, ArithInfoDescription(bin_expr.op))

check_arithmetic_operation(c, bin_expr) ==
    IF ~IsArith(bin_expr.op) THEN c
    ELSE IF ~c.v.has_overflow_checks
    THEN add_vulnerability(c, "High", ArithVulnDescription(bin_expr.op),
           "Use checked arithmetic operations (checked_add, checked_sub, checked_mul) or enable overflow-checks = true in Cargo.toml")
    ELSE add_info(c, ArithInfoDescription(bin_expr.op))

\* Decimal digit strings without leading zeros, compared as numbers.
DigitOrder == "0123456789"
DigitVal(ch) == CHOOSE d \in 1..10 : SubSeq(DigitOrder, d, d) = ch

RECURSIVE DecLessFrom(_, _, _)
DecLessFrom(a, b, i) ==
    IF i > Len(a) THEN FALSE
    ELSE IF SubSeq(a, i, i) = SubSeq(b, i, i) THEN DecLessFrom(a, b, i + 1)
    ELSE DigitVal(SubSeq(a, i, i)) < DigitVal(SubSeq(b, i, i))

DecLess(a, b) ==
    \/ Len(a) < Len(b)
    \/ Len(a) = Len(b) /\ DecLessFrom(a, b, 1)

U32Max == "4294967295"
U64Max == "18446744073709551615"

\* LitInt::base10_parse::<u64>(): fails above u64::MAX.
base10_parse_u64(digits) ==
    IF DecLess(U64Max, digits) THEN None ELSE Some(digits)

check_large_integer_literal(c, lit) ==
    IF lit.k = "Lit"
    THEN LET value == base10_parse_u64(lit.digits)
         IN IF value.some /\ DecLess(U32Max, value.val)
            THEN add_warning(c, "Large integer literal detected: " \o value.val,
                   "Consider using a smaller integer type or implementing proper overflow checks")
            ELSE c
    ELSE c

GuardIfDescription     == "Detected is_initialized check to prevent reinitialization"
GuardAssertDescription == "Detected is_initialized assertion to prevent reinitialization"

check_for_initialization_guards(c, expr) ==
    CASE expr.k = "If" ->
           IF Contains(ExprText(expr.cond), "is_initialized")
           THEN add_info(c, GuardIfDescription) ELSE c
      [] expr.k = "Call" ->
           LET func_str == ExprText(expr.func) IN
           IF /\ Contains(func_str, "assert") \/ Contains(func_str, "require")
              /\ Contains(ExprsText(expr.args, 1), "is_initialized")
           THEN add_info(c, GuardAssertDescription) ELSE c
      [] OTHER -> c

CpiDescription        == "Potential arbitrary CPI vulnerability detected"
CpiContextDescription == "Cross-Program Invocation detected - ensure proper program validation"

check_expr_for_issues(c, expr) ==
    CASE expr.k = "Field" ->
           LET c0 == update_location_from_span(c, expr)
               field_str == ExprText(expr)
               c1 == IF c0.v.cpi_performed /\ ~Contains(field_str, "reload")
                     THEN [c0 EXCEPT !.v.accessed_accounts = Append(@, field_str)]
                     ELSE c0
           IN IF expr.base.k = "Path" /\ expr.member = "remaining_accounts"
              THEN [c1 EXCEPT !.v.has_remaining_accounts_access = TRUE]
              ELSE c1
      [] expr.k = "MethodCall" ->
           LET c0 == update_location_from_span(c, expr)
               method_name == expr.method
               receiver_str == ExprText(expr.receiver)
               c1 == IF c0.v.cpi_performed /\ method_name # "reload"
                     THEN [c0 EXCEPT !.v.accessed_accounts = Append(@, receiver_str)]
                     ELSE c0
               c2 == IF Contains(receiver_str, "remaining_accounts")
                     THEN [c1 EXCEPT !.v.has_remaining_accounts_access = TRUE]
                     ELSE c1
           IN IF method_name = "create_program_address"
                 /\ c2.v.current_function_has_bump_param
              THEN [c2 EXCEPT !.v.non_canonical_bump_detected = TRUE]
              ELSE c2
      [] expr.k = "Cast" ->
           LET c0 == update_location_from_span(c, expr) IN
           IF Contains(TokenString(expr.ty), "AccountInfo")
           THEN add_warning(c0, "Casting to AccountInfo - ensure proper validation",
                  "Validate the account before and after casting to AccountInfo")
           ELSE c0
      [] expr.k = "Call" ->
           LET c0 == update_location_from_span(c, expr)
               func_str == ExprText(expr.func)
               c1 == IF \/ Contains(func_str, "invoke")
                        \/ Contains(func_str, "invoke_signed")
                        \/ Contains(func_str, "CpiContext")
                     THEN [c0 EXCEPT !.v.cpi_performed = TRUE]
                     ELSE c0
               \* the suggestion's two backquotes are written as apostrophes
               c2 == IF Contains(func_str, "invoke") \/ Contains(func_str, "invoke_signed")
                     THEN add_vulnerability(c1, "Critical", CpiDescription,
                            "Verify the program ID of the target program before invoking a cross-program call. Use 'if target_program.key() != expected_program_id { return Err(...) }' to validate.")
                     ELSE c1
               c3 == IF Contains(func_str, "CpiContext")
                     THEN add_warning(c2, CpiContextDescription,
                            "Validate the program ID and all accounts passed to the CPI before invoking. Use Program<'info, T> instead of AccountInfo for program accounts.")
                     ELSE c2
           IN IF /\ Contains(func_str, "create_program_address")
                 /\ ~Contains(func_str, "find_program_address")
              THEN add_warning(c3,
                     "Using create_program_address directly may lead to non-canonical bump usage",
                     "Use find_program_address to get the canonical bump first, or validate that you're using the canonical bump.")
              ELSE c3
      [] OTHER -> c

check_for_remaining_accounts_validation(c, expr) ==
    CASE expr.k = "Binary" ->
           LET c0 == update_location_from_span(c, expr) IN
           IF expr.op = "Eq" /\ expr.left.k = "Field"
           THEN LET c1 == update_location_from_span(c0, expr.left) IN
                IF expr.left.member = "owner" \/ expr.left.member = "key"
                THEN [c1 EXCEPT !.v.has_remaining_accounts_validation = TRUE]
                ELSE c1
           ELSE c0
      [] expr.k = "MethodCall" ->
           LET c0 == update_location_from_span(c, expr)
               method_name == expr.method
           IN IF \/ Contains(method_name, "check")
                 \/ Contains(method_name, "verify")
                 \/ Contains(method_name, "validate")
                 \/ Contains(method_name, "assert")
              THEN [c0 EXCEPT !.v.has_remaining_accounts_validation = TRUE]
              ELSE c0
      [] OTHER -> c

\* Visit::visit_expr, the part that runs on the node itself.
visit_expr(c, expr) ==
    LET c0 == update_location_from_span(c, expr)
        c1 == IF c0.v.current_function_is_init
              THEN check_for_initialization_guards(c0, expr) ELSE c0
        c2 == check_expr_for_issues(c1, expr)
        c3 == check_for_remaining_accounts_validation(c2, expr)
    IN CASE expr.k = "Binary" ->
              check_arithmetic_operation(update_location_from_span(c3, expr), expr)
         [] expr.k = "Lit" ->
              check_large_integer_literal(update_location_from_span(c3, expr), expr)
         [] OTHER -> c3

\* Visit::visit_expr_binary, reached for a binary operand of a binary node.
visit_expr_binary(c, bin_expr) == check_arithmetic_operation(c, bin_expr)

\* Visit::visit_expr_lit, reached for a literal operand of a binary node.
visit_expr_lit(c, lit) == check_large_integer_literal(c, lit)

\* --------------------------------------------------------- struct checks
AnyAttr(attrs, pat) == \E i \in DOMAIN attrs : Contains(AttrText(attrs[i]), pat)

check_account_info_field_by_suffix(c, field, field_type, field_name, struct_name) ==
    IF Contains(field_type, "AccountInfo")
    THEN LET has_constraints ==
                 \/ AnyAttr(field.attrs, "account")
                 \/ AnyAttr(field.attrs, "signer")
                 \/ AnyAttr(field.attrs, "constraint")
                 \/ AnyAttr(field.attrs, "owner")
             is_program_account ==
                 \/ EndsWith(field_name, "_program")
                 \/ EndsWith(field_name, "_Program")
         IN IF ~has_constraints
            THEN IF is_program_account
                 THEN add_vulnerability(c, "Critical",
                        "Unchecked program AccountInfo in struct " \o struct_name
                          \o ": field " \o field_name
                          \o " - potential arbitrary CPI vulnerability",
                        "Use Program<'info, T> instead of AccountInfo for program accounts to automatically validate program IDs, or add explicit validation checks.")
                 ELSE add_vulnerability(c, "High",
                        "Unchecked AccountInfo in struct " \o struct_name
                          \o ": field " \o field_name,
                        "Add proper constraints to AccountInfo fields using Anchor attributes (e.g., #[account(...)]).")
            ELSE IF is_program_account
                 THEN add_warning(c,
                        "Program account " \o field_name
                          \o " uses AccountInfo - consider stronger validation",
                        "Use Program<'info, T> or add explicit program ID verification in your code.")
                 ELSE c
    ELSE c

check_account_info_field(c, field, field_type, field_name, struct_name) ==
    IF Contains(field_type, "AccountInfo")
    THEN LET has_constraints ==
                 \/ AnyAttr(field.attrs, "account")
                 \/ AnyAttr(field.attrs, "signer")
                 \/ AnyAttr(field.attrs, "constraint")
                 \/ AnyAttr(field.attrs, "owner")
             is_program_account ==
                 \/ Contains(field_name, "program")
                 \/ Contains(field_name, "Program")
                 \/ EndsWith(field_name, "_program")
                 \/ EndsWith(field_name, "_Program")
         IN IF ~has_constraints
            THEN IF is_program_account
                 THEN add_vulnerability(c, "Critical",
                        "Unchecked program AccountInfo in struct " \o struct_name
                          \o ": field " \o field_name
                          \o " - potential arbitrary CPI vulnerability",
                        "Use Program<'info, T> instead of AccountInfo for program accounts to automatically validate program IDs, or add explicit validation checks.")
                 ELSE add_vulnerability(c, "High",
                        "Unchecked AccountInfo in struct " \o struct_name
                          \o ": field " \o field_name,
                        "Add proper constraints to AccountInfo fields using Anchor attributes (e.g., #[account(...)]).")
            ELSE IF is_program_account
                 THEN add_warning(c,
                        "Program account " \o field_name
                          \o " uses AccountInfo - consider stronger validation",
                        "Use Program<'info, T> or add explicit program ID verification in your code.")
                 ELSE c
    ELSE c

check_account_owner_constraint(c, field, field_name, struct_name) ==
    IF ~AnyAttr(field.attrs, "owner")
    THEN add_warning(c,
           "Missing owner check for Account in struct " \o struct_name
             \o ": field " \o field_name,
           "Add #[account(owner = <PROGRAM_ID>)] to ensure the account is owned by the expected program.")
    ELSE c

check_account_init_constraints(c, field, field_name, struct_name) ==
    LET has_space == AnyAttr(field.attrs, "space")
        has_init  == \E i \in DOMAIN field.attrs :
                        \/ Contains(AttrText(field.attrs[i]), "init")
                        \/ Contains(AttrText(field.attrs[i]), "init_if_needed")
        c1 == IF has_space /\ ~has_init
              THEN add_warning(c,
                     "Account space specified without init constraint in struct "
                       \o struct_name \o ": field " \o field_name,
                     "Add the init constraint when specifying space: #[account(init, space = ...)]")
              ELSE c
    IN IF AnyAttr(field.attrs, "init_if_needed")
       THEN add_warning(c1,
              "Using init_if_needed in struct " \o struct_name \o ": field " \o field_name,
              "init_if_needed can be risky. Ensure the instruction handler includes checks to prevent resetting the account to its initial state.")
       ELSE c1

HardcodedBumpDescription == "Hardcoded non-canonical bump value detected"

check_anchor_account_attribute(c, attr) ==
    IF attr.path # "account" THEN c
    ELSE LET attr_str == AttrText(attr)
             c1 == IF Contains(attr_str, "seeds") /\ ~Contains(attr_str, "bump")
                   THEN add_warning(c, "PDA seeds constraint without bump constraint",
                          "When using the seeds constraint, also specify a bump constraint to ensure canonical bump is used.")
                   ELSE c
         IN IF /\ Contains(attr_str, "bump =")
               /\ ~Contains(attr_str, "bump = bump")
               /\ ~Contains(attr_str, "bump = data.bump")
            THEN IF \/ Contains(attr_str, "bump = 0")
                    \/ Contains(attr_str, "bump = 1")
                    \/ Contains(attr_str, "bump = 2")
                 THEN add_vulnerability(c1, "Critical", HardcodedBumpDescription,
                        "Using a hardcoded bump value risks using a non-canonical bump. Use bump without a value to derive canonical bump, or use bump = data.bump to reference stored canonical bump.")
                 ELSE add_warning(c1, "Custom bump value in anchor constraint",
                        "Ensure this bump value is the canonical bump, preferably stored from find_program_address() result.")
            ELSE c1

RECURSIVE AccountAttributesFrom(_, _, _)
AccountAttributesFrom(c, attrs, i) ==
    IF i > Len(attrs) THEN c
    ELSE AccountAttributesFrom(
           IF attrs[i].path = "account"
           THEN check_anchor_account_attribute(c, attrs[i]) ELSE c,
           attrs, i + 1)

check_account_field_validation(c, field, field_type, field_name, struct_name) ==
    LET c1 == IF Contains(field_type, "Account<")
              THEN check_account_init_constraints(
                     check_account_owner_constraint(c, field, field_name, struct_name),
                     field, field_name, struct_name)
              ELSE c
    IN AccountAttributesFrom(c1, field.attrs, 1)

AtaDescription(field_name) ==
    "Associated Token Account '" \o field_name
      \o "' initialized with 'init' constraint instead of 'init_if_needed'"

check_for_ata_init_issues(c, attr, field_name, field_type) ==
    IF attr.path # "account" THEN c
    ELSE LET c0 == update_location_from_span(c, attr)
             attr_string == AttrText(attr)
             is_ata == \/ Contains(attr_string, "associated_token::")
                       \/ Contains(field_name, "ata")
                       \/ Contains(field_name, "token_account")
                       \/ Contains(field_name, "tokenAccount")
         IN IF is_ata
            THEN LET attr_parts == Split(attr_string, ",")
                     has_init == \E i \in DOMAIN attr_parts :
                                    /\ Contains(attr_parts[i], "init")
                                    /\ ~Contains(attr_parts[i], "init_if_needed")
                     has_init_if_needed == Contains(attr_string, "init_if_needed")
                 IN IF has_init /\ ~has_init_if_needed
                    THEN add_vulnerability(c0, "Critical", AtaDescription(field_name),
                           "Use 'init_if_needed' for Associated Token Accounts to handle cases where users already have ATAs created. Using 'init' will fail if the account already exists.")
                    ELSE c0
            ELSE c0

RECURSIVE AtaAttributesFrom(_, _, _, _, _)
AtaAttributesFrom(c, attrs, i, field_name, field_type) ==
    IF i > Len(attrs) THEN c
    ELSE AtaAttributesFrom(check_for_ata_init_issues(c, attrs[i], field_name, field_type),
                           attrs, i + 1, field_name, field_type)

check_account_field(c, field, struct_name) ==
    LET c0 == update_location_from_span(c, field)
        field_type == TokenString(field.ty)
        field_name == IF field.ident.some THEN field.ident.val ELSE "unnamed"
        c1 == check_account_info_field(c0, field, field_type, field_name, struct_name)
        c2 == check_account_field_validation(c1, field, field_type, field_name, struct_name)
    IN AtaAttributesFrom(c2, field.attrs, 1, field_name, field_type)

RECURSIVE AccountFieldsFrom(_, _, _, _)
AccountFieldsFrom(c, fields, i, struct_name) ==
    IF i > Len(fields) THEN c
    ELSE AccountFieldsFrom(check_account_field(c, fields[i], struct_name),
                           fields, i + 1, struct_name)

\* A variant that warns about accounts structs too.
check_for_is_initialized_field_any_struct(c, item_struct, is_accounts_struct, struct_name) ==
    LET has_is_initialized ==
            \E i \in DOMAIN item_struct.fields :
                /\ item_struct.fields[i].ident.some
                /\ item_struct.fields[i].ident.val = "is_initialized"
    IN IF ~has_is_initialized
       THEN add_warning(c,
              "Account struct " \o struct_name \o " missing is_initialized field",
              "Add an is_initialized: bool field to account structs to prevent reinitialization attacks")
       ELSE c

check_for_is_initialized_field(c, item_struct, is_accounts_struct, struct_name) ==
    LET has_is_initialized ==
            \E i \in DOMAIN item_struct.fields :
                /\ item_struct.fields[i].ident.some
                /\ item_struct.fields[i].ident.val = "is_initialized"
    IN IF ~has_is_initialized /\ ~is_accounts_struct
       THEN add_warning(c,
              "Account struct " \o struct_name \o " missing is_initialized field",
              "Add an is_initialized: bool field to account structs to prevent reinitialization attacks")
       ELSE c

\* check_struct, entered from visit_item.
check_struct(c, item_struct) ==
    LET c0 == update_location_from_span(update_location_from_span(c, item_struct),
                                        item_struct)
        struct_name == item_struct.ident
        is_accounts_struct == AnyAttr(item_struct.attrs, "Accounts")
        c1 == IF is_accounts_struct
              THEN AccountFieldsFrom(
                     add_info(c0, "Anchor Accounts struct detected: " \o struct_name),
                     item_struct.fields, 1, struct_name)
              ELSE c0
    IN IF Contains(struct_name, "Account")
       THEN check_for_is_initialized_field(
              add_info(c1, "Account struct detected - ensure proper validation"),
              item_struct, is_accounts_struct, struct_name)
       ELSE c1

\* check_enum, entered from visit_item.
check_enum(c, item_enum) ==
    LET c0 == update_location_from_span(update_location_from_span(c, item_enum),
                                        item_enum)
    IN IF Contains(item_enum.ident, "Error")
       THEN add_info(c0, "Error enum detected - ensure proper error handling")
       ELSE c0

\* visit_item for a module, an impl block or any other item: the position
\* is resolved and syn's default traversal descends.
visit_item(c, item) == update_location_from_span(c, item)

\* The nodes whose spans one call of the traversal resolves.
Resolved(e) ==
    CASE e.ev \in {"check_function", "check_enum", "visit_item"} -> {e.node}
      [] e.ev = "check_struct" ->
           {e.node} \cup
           (IF AnyAttr(e.node.attrs, "Accounts")
            THEN {e.node.fields[f] : f \in DOMAIN e.node.fields} \cup
                 UNION {{e.node.fields[f].attrs[a] :
                            a \in {x \in DOMAIN e.node.fields[f].attrs :
                                      e.node.fields[f].attrs[x].path = "account"}} :
                        f \in DOMAIN e.node.fields}
            ELSE {})
      [] e.ev = "visit_expr" ->
           {e.node} \cup
           (IF e.node.k = "Binary" /\ e.node.op = "Eq" /\ e.node.left.k = "Field"
            THEN {e.node.left} ELSE {})
      [] OTHER -> {}

\* The call panics in one of its position resolutions.
Panics(c, e) == \E node \in Resolved(e) : update_location_panics(c, node)

\* ---------------------------------------------------- description catalog
Ok(x)  == [ok |-> TRUE, val |-> x]
Err(e) == [ok |-> FALSE, err |-> e]

EmptyMap == <<>>
\* HashMap::insert
Insert(m, key, val) == (key :> val) @@ m

\* The "vulnerabilities" directory as the loader finds it:
\*   exists   - the directory is there
\*   index    - index.json: absent, unreadable, unparsable, or parsed, with
\*              its "vulnerabilities" array (None when that is no array) of
\*              ids (None when an entry's "id" is no string)
\*   listable - read_dir succeeds
\*   docs     - the other files by stem: extension, and whether the file
\*              is unreadable, unparsable or parses to a value
Doc(ext, state, value) == [ext |-> ext, state |-> state, value |-> value]

RECURSIVE LoadIndexed(_, _, _, _)
LoadIndexed(dir, vulns, i, descriptions) ==
    IF i > Len(vulns) THEN Ok(descriptions)
    ELSE LET id == vulns[i] IN
         IF ~id.some THEN LoadIndexed(dir, vulns, i + 1, descriptions)
         ELSE IF id.val \in DOMAIN dir.docs /\ dir.docs[id.val].ext = "json"
         THEN LET doc == dir.docs[id.val] IN
              IF doc.state = "unreadable" THEN Err("io")
              ELSE IF doc.state = "unparsable" THEN Err("json")
              ELSE LoadIndexed(dir, vulns, i + 1, Insert(descriptions, id.val, doc.value))
         ELSE LoadIndexed(dir, vulns, i + 1, descriptions)

\* The fallback without an index: every *.json of the directory.
LoadListed(dir) ==
    LET json == {stem \in DOMAIN dir.docs : dir.docs[stem].ext = "json"} IN
    IF \E stem \in json : dir.docs[stem].state = "unreadable" THEN Err("io")
    ELSE IF \E stem \in json : dir.docs[stem].state = "unparsable" THEN Err("json")
    ELSE Ok([stem \in json |-> dir.docs[stem].value])

load_vulnerability_descriptions(dir) ==
    IF ~dir.exists THEN Ok(EmptyMap)
    ELSE IF dir.index.state # "absent"
    THEN IF dir.index.state = "unreadable" THEN Err("io")
         ELSE IF dir.index.state = "unparsable" THEN Err("json")
         ELSE IF dir.index.vulnerabilities.some
              THEN LoadIndexed(dir, dir.index.vulnerabilities.val, 1, EmptyMap)
              ELSE Ok(EmptyMap)
    ELSE IF dir.listable THEN LoadListed(dir)
    ELSE Ok(EmptyMap)

\* find_vulnerability_description: the first entry, in the map's iteration
\* order, whose key contains `key`; a HashMap iterates in an arbitrary
\* order, so the outcomes are a set.
find_vulnerability_description(key, descriptions) ==
    LET hits == {vuln_key \in DOMAIN descriptions : Contains(vuln_key, key)} IN
    IF hits = {} THEN {None}
    ELSE {Some(descriptions[vuln_key]) : vuln_key \in hits}

\* Result::unwrap_or_default
UnwrapOrDefault(res) == IF res.ok THEN res.val ELSE EmptyMap

\* ---------------------------------------------------------------- analyzer
\* A manifest is unreadable (None) or its text.
ManifestHasFlag(content) ==
    \/ Contains(content, "overflow-checks = true")
    \/ Contains(content, "overflow-checks=true")

\* parent is None when the project path has no parent directory.
check_for_overflow_checks(project_manifest, parent_manifest) ==
    IF project_manifest.some THEN ManifestHasFlag(project_manifest.val)
    ELSE IF parent_manifest.some THEN ManifestHasFlag(parent_manifest.val)
    ELSE FALSE

NoVisitor == [some |-> FALSE]

\* AnchorVisitor::new: file_read is the outcome of reading the file again,
\* dir the catalog directory, loaded once more for the visitor.
AnchorVisitorNew(current_file, overflow, file_read, dir) ==
    [some |-> TRUE,
     current_file |-> current_file,
     current_line |-> 0,
     current_column |-> 0,
     has_overflow_checks |-> overflow,
     has_remaining_accounts_access |-> FALSE,
     has_remaining_accounts_validation |-> FALSE,
     current_function_is_init |-> FALSE,
     file_content |-> IF file_read.some THEN file_read.val ELSE "",
     cpi_performed |-> FALSE,
     accessed_accounts |-> <<>>,
     non_canonical_bump_detected |-> FALSE,
     current_function_has_bump_param |-> FALSE,
     vulnerability_descriptions |-> UnwrapOrDefault(load_vulnerability_descriptions(dir)),
     has_initialization_check |-> FALSE]

OverflowInfo ==
    [description |-> "Project has overflow-checks = true in Cargo.toml, which provides runtime protection against integer overflow/underflow",
     location |-> Location("Cargo.toml", 0, 0)]

\* analyze() up to the walk over the files (lib.rs 572-587): the result of
\* the `?` on the catalog, then the Info about the manifest.
AnalyzeProlog(dir, overflow) ==
    LET loaded == load_vulnerability_descriptions(dir) IN
    IF ~loaded.ok THEN Err("Other")
    ELSE LET r == [DefaultResult EXCEPT !.vulnerability_descriptions = loaded.val]
         IN Ok(IF overflow THEN [r EXCEPT !.info = Append(@, OverflowInfo)] ELSE r)

\* A variant that places the warning on the file's first line.
ParseWarning_on_first_line(path) ==
    [description |-> "Failed to parse file: ",
     location |-> Location(path, 1, 0),
     suggestion |-> "Check for syntax errors or unsupported Rust syntax"]

ParseWarning(path) ==
    [description |-> "Failed to parse file: ",
     location |-> Location(path, 0, 0),
     suggestion |-> "Check for syntax errors or unsupported Rust syntax"]

\* ------------------------------------------------------------------ inputs
P(name) == Path(<<name>>)
WithSrc(node, text) == node @@ [src |-> text]

\* Statements of functions that deal with remaining accounts: an access
\* and an owner comparison.
RemStmts ==
    { Local("accounts", FieldE(P("ctx"), "remaining_accounts")),
      ExprStmt(Binary("Eq", FieldE(P("acc"), "owner"), P("program_id"))) }

\* Statements of initializers: a guard, and a function declared inside the
\* body.
InitStmts ==
    { ExprStmt(IfE(FieldE(P("vault"), "is_initialized"), <<>>)),
      ItemStmt(WithSrc(ItemFn("helper", <<>>, <<>>), "fn helper")) }

\* Statements of functions that invoke other programs: the invocation and
\* a read of account data.
CpiStmts ==
    { ExprStmt(Call(P("invoke"), <<P("ix")>>)),
      Local("balance", FieldE(P("vault"), "balance")) }

\* Arithmetic: a + b * c, and a * b - c + d == 5000000000.
ArithStmts ==
    { ExprStmt(Binary("Add", P("a"), Binary("Mul", P("b"), P("c")))),
      ExprStmt(Binary("Eq",
                 Binary("Add",
                   Binary("Sub", Binary("Mul", P("a"), P("b")), P("c")),
                   P("d")),
                 Lit("5000000000"))) }

\* Sequences over S of length at most n.
RECURSIVE SeqsUpTo(_, _)
SeqsUpTo(S, n) ==
    IF n = 0 THEN {<<>>}
    ELSE LET shorter == SeqsUpTo(S, n - 1)
         IN shorter \cup {Append(b, st) : b \in shorter, st \in S}

FnFamily(names, stmts) ==
    { WithSrc(ItemFn(n, <<"ctx">>, b), "fn " \o n) :
        n \in names, b \in SeqsUpTo(stmts, MaxStmts) }

Functions ==
    FnFamily({"process"}, RemStmts)
      \cup FnFamily({"init_vault", "create_vault"}, InitStmts)
      \cup FnFamily({"withdraw"}, CpiStmts)
      \cup FnFamily({"compute"}, ArithStmts)

AccountInfoTy == <<"AccountInfo", "<", "'info", ">">>
TokenAccountTy == <<"Account", "<", "'info", ",", "TokenAccount", ">">>

\* Fields of unchecked-account type: program-like or not, unconstrained,
\* documented, or constrained.
AccountInfoFields ==
    { StructField(attrs, name, AccountInfoTy) :
        name \in {"token_program", "authority_check", "tokenProgram"},
        attrs \in { <<>>,
                    <<Attr("doc", <<"\" CHECK: not validated\"">>)>>,
                    <<Attr("doc", <<"\" CHECK: the owner is verified\"">>)>>,
                    <<Attr("account", <<"mut">>)>> } }

\* Fields of token-account type: named like an associated token account
\* or not, initialized with init or init_if_needed, with or without the
\* associated_token constraints.
TokenAccountFields ==
    { StructField(<<Attr("account", args)>>, name, TokenAccountTy) :
        name \in {"token_account", "user_vault"},
        args \in { <<"init", ",", "payer", "=", "payer", ",",
                     "associated_token", "::", "mint", "=", "mint">>,
                   <<"init_if_needed", ",", "payer", "=", "payer", ",",
                     "associated_token", "::", "mint", "=", "mint">>,
                   <<"init", ",", "payer", "=", "payer">>,
                   <<"mut">> } }

AccountsStructs ==
    { WithSrc(ItemStruct("Deposit", <<Attr("derive", <<"Accounts">>)>>, <<f>>),
              "struct Deposit") :
        f \in AccountInfoFields \cup TokenAccountFields }

\* A module with a function and an impl block with a method.
ContainerItems ==
    { WithSrc(ItemMod("vault",
                <<WithSrc(ItemFn("init_vault", <<"ctx">>, <<>>), "fn init_vault")>>),
              "mod vault"),
      WithSrc(ItemImpl("Vault",
                <<ItemFn("init", <<>>, <<ExprStmt(Binary("Add", P("a"), P("b")))>>)>>),
              "impl Vault") }

OtherItems ==
    { WithSrc(ItemStruct("VaultAccount", <<Attr("account", <<>>)>>,
                         <<StructField(<<>>, "owner", <<"Pubkey">>)>>),
              "struct VaultAccount"),
      WithSrc(ItemEnum("VaultError"), "enum VaultError") }
      \cup ContainerItems

\* More arithmetic: total(a + b).checked_add((c - d) as u64), and
\* if a - b { x * y }.
NestedArithStmts ==
    { ExprStmt(MethodCall(Call(P("total"), <<Binary("Add", P("a"), P("b"))>>),
                          "checked_add",
                          <<Cast(Paren(Binary("Sub", P("c"), P("d"))), <<"u64">>)>>)),
      ExprStmt(IfE(Binary("Sub", P("a"), P("b")),
                   <<ExprStmt(Binary("Mul", P("x"), P("y")))>>)) }

\* The items of a program that computes: functions of one statement, a
\* module and an impl block.
ArithItems ==
    { WithSrc(ItemFn("compute", <<"ctx">>, <<st>>), "fn compute") :
        st \in ArithStmts \cup NestedArithStmts }
      \cup ContainerItems

\* Statements in which a checked expression sits at different places:
\*   let accounts = self.ctx.remaining_accounts;
\*   let accounts = ctx.remaining_accounts;
\*   if a.owner == x && b.key == y { }
\*   let ok = invoke(ix) == done;
\*   invoke(ix);
\*   CpiContext::new(program);
\*   fn helper() { }
ExprStmts ==
    { Local("accounts", FieldE(FieldE(P("self"), "ctx"), "remaining_accounts")),
      Local("accounts", FieldE(P("ctx"), "remaining_accounts")),
      ExprStmt(IfE(Binary("And",
                     Binary("Eq", FieldE(P("a"), "owner"), P("x")),
                     Binary("Eq", FieldE(P("b"), "key"), P("y"))),
                   <<>>)),
      Local("ok", Binary("Eq", Call(P("invoke"), <<P("ix")>>), P("done"))),
      ExprStmt(Call(P("invoke"), <<P("ix")>>)),
      ExprStmt(Call(Path(<<"CpiContext", "new">>), <<P("program")>>)),
      ItemStmt(WithSrc(ItemFn("helper", <<>>, <<>>), "fn helper")) }

\* Functions over these statements, and an impl block whose method invokes
\* another program.
ExprItems ==
    FnFamily({"process"}, ExprStmts)
      \cup { WithSrc(ItemImpl("Vault",
                       <<ItemFn("pay", <<>>, <<ExprStmt(Call(P("invoke"), <<P("ix")>>))>>)>>),
                     "impl Vault") }

\* Statements of functions that derive program addresses:
\*   seeds.create_program_address(bump);
\*   let ok = seeds.create_program_address(bump) == pda;
\*   Pubkey::create_program_address(seeds);
\*   fn helper() { }
BumpStmts ==
    { ExprStmt(MethodCall(P("seeds"), "create_program_address", <<P("bump")>>)),
      Local("ok", Binary("Eq",
                    MethodCall(P("seeds"), "create_program_address", <<P("bump")>>),
                    P("pda"))),
      ExprStmt(Call(Path(<<"Pubkey", "create_program_address">>), <<P("seeds")>>)),
      ItemStmt(WithSrc(ItemFn("helper", <<>>, <<>>), "fn helper")) }

\* Functions over these statements, with and without a bump parameter.
BumpItems ==
    { WithSrc(ItemFn("derive", inputs, b), "fn derive") :
        inputs \in {<<"ctx">>, <<"ctx", "bump">>, <<"vault_bump_seed">>},
        b \in SeqsUpTo(BumpStmts, MaxStmts) }

\* Statements with integer literals at and above the limits of u32 and
\* u64, as a statement, as a direct operand, and nested:
\*   let cap = 4294967295;
\*   let cap = 4294967296;
\*   let cap = 18446744073709551616;
\*   amount == 18446744073709551615;
\*   limit == (fee == 4294967296);      (written without the parentheses
\*                                        of the source, a nested operand)
\*   pay((5000000000));
LitStmts ==
    { Local("cap", Lit("4294967295")),
      Local("cap", Lit("4294967296")),
      Local("cap", Lit("18446744073709551616")),
      ExprStmt(Binary("Eq", P("amount"), Lit("18446744073709551615"))),
      ExprStmt(Binary("Eq", P("limit"), Binary("Eq", P("fee"), Lit("4294967296")))),
      ExprStmt(Call(P("pay"), <<Paren(Lit("5000000000"))>>)) }

LitItems == FnFamily({"settle"}, LitStmts)

\* The bump constraints of a program-derived account: none, bare, a
\* literal, a stored bump.
BumpConstraints ==
    { <<>>, <<",", "bump">>,
      <<",", "bump", "=", "0">>, <<",", "bump", "=", "1">>, <<",", "bump", "=", "2">>,
      <<",", "bump", "=", "10">>, <<",", "bump", "=", "255">>, <<",", "bump", "=", "7">>,
      <<",", "bump", "=", "vault", ".", "bump">>,
      <<",", "bump", "=", "data", ".", "bump">> }

\* Accounts structs with one field that carries an account attribute:
\*   #[derive(Accounts)] struct Withdraw {
\*       #[doc = " CHECK: the owner is verified"]
\*       #[account(mut, seeds = [seed], bump = ...)] vault_account: AccountInfo<'info> }
\* and one whose attribute has neither seeds nor bump.
PdaStructs ==
    { WithSrc(ItemStruct("Withdraw", <<Attr("derive", <<"Accounts">>)>>,
                <<StructField(<<Attr("doc", <<"\" CHECK: the owner is verified\"">>),
                                Attr("account", args)>>,
                              "vault_account", AccountInfoTy)>>),
              "struct Withdraw") :
        args \in { <<"mut", ",", "seeds", "=", "[", "seed", "]">> \o b : b \in BumpConstraints }
                   \cup { <<"mut">> } }

\* Accounts structs with one field of typed-account type:
\*   #[derive(Accounts)] struct Settle { vault: Account<'info, Vault> }
\* without attribute, and with #[account(...)] of mut; owner = program;
\* space = 8; init, space = 8; init_if_needed, payer = payer.
TypedAccountStructs ==
    { WithSrc(ItemStruct("Settle", <<Attr("derive", <<"Accounts">>)>>,
                <<StructField(attrs, "vault", <<"Account", "<", "'info", ",", "Vault", ">">>)>>),
              "struct Settle") :
        attrs \in { <<>>,
                    <<Attr("account", <<"mut">>)>>,
                    <<Attr("account", <<"owner", "=", "program">>)>>,
                    <<Attr("account", <<"space", "=", "8">>)>>,
                    <<Attr("account", <<"init", ",", "space", "=", "8">>)>>,
                    <<Attr("account", <<"init_if_needed", ",", "payer", "=", "payer">>)>> } }

\* Structs of account data and accounts structs, named with and without
\* Account, with and without a field is_initialized, of type bool or u8:
\*   #[account] struct VaultAccount { authority: Pubkey }
\*   #[account] struct VaultAccount { is_initialized: bool, authority: Pubkey }
\*   #[account] struct VaultAccount { is_initialized: u8 }
\*   #[derive(Accounts)] struct VaultAccount { initialized: bool } ...
DataStructs ==
    { WithSrc(ItemStruct(name, <<attr>>, fields), "struct " \o name) :
        name \in {"VaultAccount", "Vault"},
        attr \in {Attr("account", <<>>), Attr("derive", <<"Accounts">>)},
        fields \in { <<>>,
                     <<StructField(<<>>, "authority", <<"Pubkey">>)>>,
                     <<StructField(<<>>, "is_initialized", <<"bool">>),
                       StructField(<<>>, "authority", <<"Pubkey">>)>>,
                     <<StructField(<<>>, "is_initialized", <<"u8">>)>>,
                     <<StructField(<<>>, "initialized", <<"bool">>)>> } }

\* Impl blocks with one method, named like an initializer or not, with a
\* bump parameter or not:
\*   impl Vault { fn initialize() { let accounts = ctx.remaining_accounts; invoke(ix); } }
\*   impl Vault { fn create_vault(bump) { a + b; seeds.create_program_address(bump); } }
\*   impl Vault { fn process() { let cap = 5000000000; } }  ...
\* and two functions, to come before or after them in a file:
\*   fn process(ctx) { let accounts = ctx.remaining_accounts; }
\*   fn derive(ctx, bump) { seeds.create_program_address(bump); }
MethodItems ==
    { WithSrc(ItemImpl("Vault", <<ItemFn(sig[1], sig[2], body)>>), "impl Vault") :
        sig \in { <<"initialize", <<>> >>, <<"create_vault", <<"bump">> >>,
                  <<"process", <<>> >> },
        body \in { <<>>,
                   <<Local("accounts", FieldE(P("ctx"), "remaining_accounts")),
                     ExprStmt(Call(P("invoke"), <<P("ix")>>))>>,
                   <<ExprStmt(Binary("Add", P("a"), P("b"))),
                     ExprStmt(MethodCall(P("seeds"), "create_program_address",
                                         <<P("bump")>>))>>,
                   <<Local("cap", Lit("5000000000"))>> } }
      \cup
    { WithSrc(ItemFn("process", <<"ctx">>,
                <<Local("accounts", FieldE(P("ctx"), "remaining_accounts"))>>),
              "fn process"),
      WithSrc(ItemFn("derive", <<"ctx", "bump">>,
                <<ExprStmt(MethodCall(P("seeds"), "create_program_address",
                                      <<P("bump")>>))>>),
              "fn derive") }

\* Accounts structs that get vulnerabilities: an unchecked program
\* account, an unchecked account, a hardcoded bump.
\*   #[derive(Accounts)] struct Deposit { token_program: AccountInfo<'info> }
\*   #[derive(Accounts)] struct Deposit { authority: AccountInfo<'info> }
\*   #[derive(Accounts)] struct Deposit {
\*       #[account(seeds = [seed], bump = 0)] vault: AccountInfo<'info> }
VulnerableStructs ==
    { WithSrc(ItemStruct("Deposit", <<Attr("derive", <<"Accounts">>)>>, <<f>>),
              "struct Deposit") :
        f \in { StructField(<<>>, "token_program", AccountInfoTy),
                StructField(<<>>, "authority", AccountInfoTy),
                StructField(<<Attr("account", <<"seeds", "=", "[", "seed", "]", ",",
                                               "bump", "=", "0">>)>>,
                            "vault", AccountInfoTy) } }

\* Functions with findings on entry, in the body and at exit:
\*   fn create_access(ctx, bump) { let accounts = ctx.remaining_accounts;
\*                                 invoke(ix); seeds.create_program_address(bump); }
\*   fn validate_error(ctx) { a + b; }
\*   fn init_vault(ctx, bump) { if vault.is_initialized { }
\*                              seeds.create_program_address(bump); }
\*   fn process(ctx) { let accounts = ctx.remaining_accounts; }
\*   fn create_vault(ctx) { invoke(ix); }
\*   fn validate_transfer(ctx) { CpiContext::new(program); }
ExitItems ==
    { WithSrc(ItemFn("create_access", <<"ctx", "bump">>,
                <<Local("accounts", FieldE(P("ctx"), "remaining_accounts")),
                  ExprStmt(Call(P("invoke"), <<P("ix")>>)),
                  ExprStmt(MethodCall(P("seeds"), "create_program_address", <<P("bump")>>))>>),
              "fn create_access"),
      WithSrc(ItemFn("validate_error", <<"ctx">>,
                <<ExprStmt(Binary("Add", P("a"), P("b")))>>),
              "fn validate_error"),
      WithSrc(ItemFn("init_vault", <<"ctx", "bump">>,
                <<ExprStmt(IfE(FieldE(P("vault"), "is_initialized"), <<>>)),
                  ExprStmt(MethodCall(P("seeds"), "create_program_address", <<P("bump")>>))>>),
              "fn init_vault"),
      WithSrc(ItemFn("process", <<"ctx">>,
                <<Local("accounts", FieldE(P("ctx"), "remaining_accounts"))>>),
              "fn process"),
      WithSrc(ItemFn("create_vault", <<"ctx">>,
                <<ExprStmt(Call(P("invoke"), <<P("ix")>>))>>),
              "fn create_vault"),
      WithSrc(ItemFn("validate_transfer", <<"ctx">>,
                <<ExprStmt(Call(Path(<<"CpiContext", "new">>), <<P("program")>>))>>),
              "fn validate_transfer") }

\* The functions of a program that processes remaining accounts.
SiblingItems == FnFamily({"process"}, RemStmts)

\* A small program: arithmetic, an unguarded initializer, a CPI context,
\* an accounts struct with an unchecked program account, an error enum.
RunItems ==
    { WithSrc(ItemFn("compute", <<"ctx">>,
                <<ExprStmt(Binary("Add", P("a"), Binary("Mul", P("b"), P("c"))))>>),
              "fn compute"),
      WithSrc(ItemFn("init_vault", <<"ctx">>, <<>>), "fn init_vault"),
      WithSrc(ItemFn("validate_transfer", <<"ctx">>,
                <<ExprStmt(Call(Path(<<"CpiContext", "new">>), <<P("program")>>))>>),
              "fn validate_transfer"),
      WithSrc(ItemStruct("Deposit", <<Attr("derive", <<"Accounts">>)>>,
                <<StructField(<<>>, "token_program", AccountInfoTy)>>),
              "struct Deposit"),
      WithSrc(ItemEnum("VaultError"), "enum VaultError") }

\* The text of a source file; items name snippets of it.
FileText ==
    "use anchor_lang;\nfn process\nfn init_vault\nstruct Deposit\nfn process\nenum VaultError"

\* Other texts of a source file: empty, one that names a variable with an
\* accented letter, one that names a plain variable twice.
FileTexts ==
    { "", "fn tally\nlet total = é;", "fn tally\nlet total = e;\nlet rate = e;" }

\* Statements that read a variable; the expression's span carries its
\* snippet or none.
TextStmts ==
    { Local("total", WithSrc(Path(<<"é">>), "é")),
      Local("total", WithSrc(Path(<<"e">>), "e")),
      Local("total", Path(<<"e">>)) }

\* Texts of a source file whose lines repeat: the call is written on lines
\* 2 and 4, the letter e occurs on every line but the first, and the last
\* line names a variable with an accented letter.
LineTexts ==
    { "", "fn tally\ninvoke(ix);\nlet rate = e;\ninvoke(ix);\nlet total = é;" }

\* Functions whose nodes carry a snippet or none:
\*   fn tally(ctx) { invoke(ix); }              the call with its snippet
\*   fn tally(ctx) { let rate = e; invoke(ix); }  the call without one
\*   fn tally(ctx) { invoke(ix); }              the call without one
\*   fn tally(ctx) { let total = é; }
\*   fn other(ctx) { invoke(ix); }              nothing of it is in the text
LineItems ==
    { WithSrc(ItemFn("tally", <<"ctx">>,
                <<ExprStmt(WithSrc(Call(P("invoke"), <<P("ix")>>), "invoke(ix)"))>>),
              "fn tally"),
      WithSrc(ItemFn("tally", <<"ctx">>,
                <<Local("rate", WithSrc(P("e"), "e")),
                  ExprStmt(Call(P("invoke"), <<P("ix")>>))>>),
              "fn tally"),
      WithSrc(ItemFn("tally", <<"ctx">>,
                <<ExprStmt(Call(P("invoke"), <<P("ix")>>))>>),
              "fn tally"),
      WithSrc(ItemFn("tally", <<"ctx">>,
                <<Local("total", WithSrc(Path(<<"é">>), "é"))>>),
              "fn tally"),
      WithSrc(ItemFn("other", <<"ctx">>,
                <<ExprStmt(Call(P("invoke"), <<P("ix")>>))>>),
              "fn other") }

PathOf(i) == "src/file" \o ToString(i) \o ".rs"

\* The files of a project by number, each with its items: functions that
\* access remaining accounts and initialize, an initializer that computes,
\* an accounts struct and an error enum, a CPI context.
ProjectFile(i) ==
    CASE i = 1 ->
           <<WithSrc(ItemFn("process", <<"ctx">>,
                       <<Local("accounts", FieldE(P("ctx"), "remaining_accounts"))>>),
                     "fn process"),
             WithSrc(ItemFn("init_vault", <<"ctx">>, <<>>), "fn init_vault")>>
      [] i = 2 ->
           <<WithSrc(ItemFn("create_vault", <<"ctx">>,
                       <<ExprStmt(Binary("Add", P("a"), Binary("Mul", P("b"), P("c"))))>>),
                     "fn create_vault")>>
      [] i = 3 ->
           <<WithSrc(ItemStruct("Deposit", <<Attr("derive", <<"Accounts">>)>>,
                       <<StructField(<<>>, "token_program", AccountInfoTy)>>),
                     "struct Deposit"),
             WithSrc(ItemEnum("VaultError"), "enum VaultError")>>
      [] OTHER ->
           <<WithSrc(ItemFn("validate_transfer", <<"ctx">>,
                       <<ExprStmt(Call(Path(<<"CpiContext", "new">>), <<P("program")>>))>>),
                     "fn validate_transfer")>>

\* Catalog directories: absent; empty; an index naming a present and a
\* missing document; no index and two documents; and broken ones.
ReinitDoc == [description |-> "Reinitialization attack"]
MissingDir == [exists |-> FALSE, index |-> [state |-> "absent"], listable |-> FALSE,
               docs |-> <<>>]
CatalogDirs ==
    { MissingDir,
      [exists |-> TRUE, index |-> [state |-> "absent"], listable |-> TRUE, docs |-> <<>>],
      [exists |-> TRUE,
       index |-> [state |-> "ok",
                  vulnerabilities |-> Some(<<Some("Reinitialization"), Some("Overflow"), None>>)],
       listable |-> TRUE,
       docs |-> [stem \in {"Reinitialization"} |-> Doc("json", "ok", ReinitDoc)]],
      [exists |-> TRUE, index |-> [state |-> "absent"], listable |-> TRUE,
       docs |-> [stem \in {"Reinitialization", "README"} |->
                   IF stem = "README" THEN Doc("md", "ok", ReinitDoc)
                   ELSE Doc("json", "ok", ReinitDoc)]],
      [exists |-> TRUE, index |-> [state |-> "unreadable"], listable |-> TRUE, docs |-> <<>>],
      [exists |-> TRUE, index |-> [state |-> "unparsable"], listable |-> TRUE, docs |-> <<>>],
      [exists |-> TRUE, index |-> [state |-> "ok", vulnerabilities |-> None],
       listable |-> TRUE, docs |-> <<>>],
      [exists |-> TRUE,
       index |-> [state |-> "ok", vulnerabilities |-> Some(<<Some("Reinitialization")>>)],
       listable |-> TRUE,
       docs |-> [stem \in {"Reinitialization"} |-> Doc("json", "unparsable", ReinitDoc)]],
      [exists |-> TRUE, index |-> [state |-> "absent"], listable |-> TRUE,
       docs |-> [stem \in {"Reinitialization"} |-> Doc("json", "unreadable", ReinitDoc)]],
      [exists |-> TRUE, index |-> [state |-> "absent"], listable |-> FALSE, docs |-> <<>>] }

\* Catalog directories of a report: those above and one whose documents
\* are named in lower case.
OverflowDoc == [description |-> "Integer overflow"]
ReportDirs ==
    CatalogDirs \cup
    { [exists |-> TRUE, index |-> [state |-> "absent"], listable |-> TRUE,
       docs |-> [stem \in {"reinitialization_attack", "overflow"} |->
                   IF stem = "overflow" THEN Doc("json", "ok", OverflowDoc)
                   ELSE Doc("json", "ok", ReinitDoc)]] }

\* Words of the findings' descriptions that to_markdown looks up, and
\* shorter keywords.
KeyWords ==
    { "Initialization", "reinitialization", "overflow/underflow", "Reinit", "reinit",
      "Overflow", "attack", "arithmetic" }

Manifests ==
    { None, Some("[profile.release]\noverflow-checks = true"),
      Some("[profile.release]\nlto = true") }

\* ------------------------------------------------------------------- state
VARIABLES
    catalog_dir,          \* the catalog directory on disk
    has_overflow_checks,  \* SolanaAnalyzer.has_overflow_checks
    pc,                   \* where analyze() is: start, walk, visit, returned
    result,               \* analyze()'s AnalysisResult
    visitor,              \* the file's AnchorVisitor, NoVisitor between files
    todo,                 \* the calls the traversal still makes for the current item
    walked,               \* paths of the files analyze_file was called on
    items_used,           \* items visited so far in the run
    ret,                  \* what analyze() returned
    last,                 \* the call made last, the state it was made in, and
                          \* the file's item under traversal (top)
    shadow                \* the same run over an absent catalog directory

vars == <<catalog_dir, has_overflow_checks, pc, result, visitor, todo, walked,
          items_used, ret, last, shadow>>

Cx == [v |-> visitor, r |-> result]

Snapshot(kind, node) ==
    [ev |-> kind, node |-> node, v |-> visitor,
     nv |-> Len(result.vulnerabilities), nw |-> Len(result.warnings),
     ni |-> Len(result.info), top |-> last.top]

InitIn(dirs) ==
    /\ catalog_dir \in dirs
    /\ has_overflow_checks \in
         {check_for_overflow_checks(m, n) : m \in Manifests, n \in Manifests}
    /\ pc = "start"
    /\ result = DefaultResult
    /\ visitor = NoVisitor
    /\ todo = <<>>
    /\ walked = <<>>
    /\ items_used = 0
    /\ ret = [kind |-> "none"]
    /\ last = [ev |-> "none", node |-> None, v |-> NoVisitor, nv |-> 0, nw |-> 0,
               ni |-> 0, top |-> None]
    /\ shadow = [v |-> NoVisitor, r |-> DefaultResult]

Init    == InitIn({MissingDir})
InitRun == InitIn(CatalogDirs)
InitReport == InitIn(ReportDirs)

\* analyze(), up to the walk.
Analyze ==
    /\ pc = "start"
    /\ LET p == AnalyzeProlog(catalog_dir, has_overflow_checks) IN
       IF p.ok
       THEN /\ result' = p.val
            /\ pc' = "walk"
            /\ ret' = ret
       ELSE /\ ret' = [kind |-> "Err", err |-> p.err]
            /\ pc' = "returned"
            /\ result' = result
    /\ shadow' = [shadow EXCEPT !.r = AnalyzeProlog(MissingDir, has_overflow_checks).val]
    /\ last' = Snapshot("analyze", None)
    /\ UNCHANGED <<catalog_dir, has_overflow_checks, visitor, todo, walked, items_used>>

\* A variant in which a file that cannot be read is skipped.
AnalyzeFileReadError_skipped ==
    /\ pc = "walk"
    /\ Len(walked) < MaxFiles
    /\ walked' = Append(walked, PathOf(Len(walked) + 1))
    /\ last' = Snapshot("read_error", None)
    /\ UNCHANGED <<catalog_dir, has_overflow_checks, pc, result, visitor, todo, items_used,
                   ret, shadow>>

\* analyze_file on a file that cannot be read: `?` returns the error.
AnalyzeFileReadError ==
    /\ pc = "walk"
    /\ Len(walked) < MaxFiles
    /\ walked' = Append(walked, PathOf(Len(walked) + 1))
    /\ ret' = [kind |-> "Err", err |-> "FileReadError"]
    /\ pc' = "returned"
    /\ last' = Snapshot("read_error", None)
    /\ UNCHANGED <<catalog_dir, has_overflow_checks, result, visitor, todo, items_used,
                   shadow>>

\* analyze_file on a file that does not parse.
AnalyzeFileParseError ==
    /\ pc = "walk"
    /\ Len(walked) < MaxFiles
    /\ LET path == PathOf(Len(walked) + 1) IN
       /\ walked' = Append(walked, path)
       /\ result' = [result EXCEPT !.warnings = Append(@, ParseWarning(path))]
       /\ shadow' = [shadow EXCEPT !.r.warnings = Append(@, ParseWarning(path))]
    /\ last' = Snapshot("parse_error", None)
    /\ UNCHANGED <<catalog_dir, has_overflow_checks, pc, visitor, todo, items_used, ret>>

\* analyze_file on a file that parses: a visitor is created for it.
AnalyzeFileVisit ==
    /\ pc = "walk"
    /\ Len(walked) < MaxFiles
    /\ LET path == PathOf(Len(walked) + 1) IN
       /\ walked' = Append(walked, path)
       /\ visitor' = AnchorVisitorNew(path, has_overflow_checks, Some(FileText), catalog_dir)
       /\ shadow' = [shadow EXCEPT !.v =
             AnchorVisitorNew(path, has_overflow_checks, Some(FileText), MissingDir)]
    /\ pc' = "visit"
    /\ last' = Snapshot("new", None)
    /\ UNCHANGED <<catalog_dir, has_overflow_checks, result, todo, items_used, ret>>

\* analyze_file on a file that parses, whatever its text.
AnalyzeFileVisitText ==
    /\ pc = "walk"
    /\ Len(walked) < MaxFiles
    /\ \E text \in FileTexts :
         LET path == PathOf(Len(walked) + 1) IN
         /\ walked' = Append(walked, path)
         /\ visitor' = AnchorVisitorNew(path, has_overflow_checks, Some(text), catalog_dir)
         /\ shadow' = [shadow EXCEPT !.v =
               AnchorVisitorNew(path, has_overflow_checks, Some(text), MissingDir)]
    /\ pc' = "visit"
    /\ last' = Snapshot("new", None)
    /\ UNCHANGED <<catalog_dir, has_overflow_checks, result, todo, items_used, ret>>

\* analyze_file on a file that parses and whose lines repeat.
AnalyzeFileVisitLine ==
    /\ pc = "walk"
    /\ Len(walked) < MaxFiles
    /\ \E text \in LineTexts :
         LET path == PathOf(Len(walked) + 1) IN
         /\ walked' = Append(walked, path)
         /\ visitor' = AnchorVisitorNew(path, has_overflow_checks, Some(text), catalog_dir)
         /\ shadow' = [shadow EXCEPT !.v =
               AnchorVisitorNew(path, has_overflow_checks, Some(text), MissingDir)]
    /\ pc' = "visit"
    /\ last' = Snapshot("new", None)
    /\ UNCHANGED <<catalog_dir, has_overflow_checks, result, todo, items_used, ret>>

\* The walk yields the files of a project in any order; analyze_file makes
\* a visitor for the file and visit_file visits its items one after another.
AnalyzeProjectFile ==
    /\ pc = "walk"
    /\ Len(walked) < MaxFiles
    /\ \E i \in 1..(MaxFiles + 1) :
         /\ \A w \in DOMAIN walked : walked[w] # PathOf(i)
         /\ walked' = Append(walked, PathOf(i))
         /\ visitor' = AnchorVisitorNew(PathOf(i), has_overflow_checks, Some(FileText),
                                        catalog_dir)
         /\ shadow' = [shadow EXCEPT !.v =
               AnchorVisitorNew(PathOf(i), has_overflow_checks, Some(FileText), MissingDir)]
         /\ todo' = ItemListEvents(ProjectFile(i), 1)
    /\ pc' = "visit"
    /\ last' = Snapshot("new", None)
    /\ UNCHANGED <<catalog_dir, has_overflow_checks, result, items_used, ret>>

\* syn::visit::visit_file reaches the next item of the file.
NextItem(item) ==
    /\ pc = "visit"
    /\ todo = <<>>
    /\ items_used < MaxItems
    /\ todo' = ItemEvents(item)
    /\ items_used' = items_used + 1
    /\ last' = [Snapshot("next_item", None) EXCEPT !.top =
                   Some([item |-> item, nv |-> Len(result.vulnerabilities),
                         nw |-> Len(result.warnings), ni |-> Len(result.info)])]
    /\ UNCHANGED <<catalog_dir, has_overflow_checks, pc, result, visitor, walked, ret,
                   shadow>>

\* The item is a function, a module, an impl block, an enum or a plain
\* struct of a program.
VisitFileItem ==
    /\ \E item \in Functions \cup OtherItems : NextItem(item)

\* The item is an accounts struct.
VisitFileStruct ==
    /\ \E item \in AccountsStructs : NextItem(item)

\* The item is a function that computes, a module or an impl block.
VisitFileArithItem ==
    /\ \E item \in ArithItems : NextItem(item)

\* The item is a function that processes remaining accounts.
VisitFileSibling ==
    /\ \E item \in SiblingItems : NextItem(item)

\* The item is one of a small program's.
VisitFileRunItem ==
    /\ \E item \in RunItems : NextItem(item)

\* The item is a function that reads variables.
VisitFileTextItem ==
    /\ \E item \in FnFamily({"tally"}, TextStmts) : NextItem(item)

\* The item is a function of a file whose lines repeat.
VisitFileLineItem ==
    /\ \E item \in LineItems : NextItem(item)

\* The item is a function over checked expressions, or an impl block.
VisitFileExprItem ==
    /\ \E item \in ExprItems : NextItem(item)

\* The item is a function with findings on entry, in the body or at exit.
VisitFileExitItem ==
    /\ \E item \in ExitItems : NextItem(item)

\* The item is a function that derives program addresses.
VisitFileBumpItem ==
    /\ \E item \in BumpItems : NextItem(item)

\* The item is a function with integer literals.
VisitFileLitItem ==
    /\ \E item \in LitItems : NextItem(item)

\* The item is an accounts struct with a program-derived account or with
\* a typed account.
VisitFilePdaStruct ==
    /\ \E item \in PdaStructs \cup TypedAccountStructs : NextItem(item)

\* The item is a struct of account data or an accounts struct.
VisitFileDataStruct ==
    /\ \E item \in DataStructs : NextItem(item)

\* The item is an impl block with a method, or a function.
VisitFileMethodItem ==
    /\ \E item \in MethodItems : NextItem(item)

\* The item is one that gets vulnerabilities of every kind the visitor
\* reports.
VisitFileVulnerableItem ==
    /\ \E item \in ExitItems \cup VulnerableStructs : NextItem(item)

\* The traversal's next call on the visitor is `kind`, and it returns.
Calls(kind) ==
    /\ pc = "visit"
    /\ todo # <<>>
    /\ Head(todo).ev = kind
    /\ ~Panics(Cx, Head(todo))

\* The traversal's next call on the visitor panics: the stack unwinds
\* through visit_file, analyze_file and analyze, and no result is returned.
VisitorPanics ==
    /\ pc = "visit"
    /\ todo # <<>>
    /\ Panics(Cx, Head(todo))
    /\ pc' = "panicked"
    /\ ret' = [kind |-> "Panic"]
    /\ visitor' = NoVisitor
    /\ shadow' = [shadow EXCEPT !.v = NoVisitor]
    /\ last' = Snapshot(Head(todo).ev, Head(todo).node)
    /\ UNCHANGED <<catalog_dir, has_overflow_checks, result, todo, walked, items_used>>

\* The call returns: d is what it made of the visitor and the result, s
\* what it made of the shadow run's.
Returns(d, s) ==
    /\ visitor' = d.v
    /\ result' = d.r
    /\ shadow' = s
    /\ last' = Snapshot(Head(todo).ev, Head(todo).node)
    /\ todo' = Tail(todo)
    /\ UNCHANGED <<catalog_dir, has_overflow_checks, pc, walked, items_used, ret>>

CheckFunction ==
    /\ Calls("check_function")
    /\ Returns(check_function(Cx, Head(todo).node),
               check_function(shadow, Head(todo).node))

CheckFunctionExit ==
    /\ Calls("check_function_exit")
    /\ Returns(check_function_exit(Cx, Head(todo).node),
               check_function_exit(shadow, Head(todo).node))

CheckStruct ==
    /\ Calls("check_struct")
    /\ Returns(check_struct(Cx, Head(todo).node),
               check_struct(shadow, Head(todo).node))

CheckEnum ==
    /\ Calls("check_enum")
    /\ Returns(check_enum(Cx, Head(todo).node),
               check_enum(shadow, Head(todo).node))

VisitItem ==
    /\ Calls("visit_item")
    /\ Returns(visit_item(Cx, Head(todo).node),
               visit_item(shadow, Head(todo).node))

VisitExpr ==
    /\ Calls("visit_expr")
    /\ Returns(visit_expr(Cx, Head(todo).node),
               visit_expr(shadow, Head(todo).node))

VisitExprBinary ==
    /\ Calls("visit_expr_binary")
    /\ Returns(visit_expr_binary(Cx, Head(todo).node),
               visit_expr_binary(shadow, Head(todo).node))

VisitExprLit ==
    /\ Calls("visit_expr_lit")
    /\ Returns(visit_expr_lit(Cx, Head(todo).node),
               visit_expr_lit(shadow, Head(todo).node))

\* visit_file returns: the visitor is dropped.
AnalyzeFileDone ==
    /\ pc = "visit"
    /\ todo = <<>>
    /\ visitor' = NoVisitor
    /\ shadow' = [shadow EXCEPT !.v = NoVisitor]
    /\ pc' = "walk"
    /\ last' = [Snapshot("file_done", None) EXCEPT !.top = None]
    /\ UNCHANGED <<catalog_dir, has_overflow_checks, result, todo, walked, items_used, ret>>

\* The walk is over: Ok(result).
AnalyzeReturn ==
    /\ pc = "walk"
    /\ ret' = [kind |-> "Ok", result |-> result]
    /\ pc' = "returned"
    /\ last' = Snapshot("return", None)
    /\ UNCHANGED <<catalog_dir, has_overflow_checks, result, visitor, todo, walked,
                   items_used, shadow>>

\* to_markdown looks a word of a finding's description up in the catalog
\* of the result, in lower case.
FindVulnerabilityDescription ==
    /\ pc = "returned"
    /\ ret.kind = "Ok"
    /\ \E word \in KeyWords :
         \E found \in find_vulnerability_description(to_lowercase(word),
                                                      ret.result.vulnerability_descriptions) :
            ret' = [kind |-> "Report", key |-> to_lowercase(word), found |-> found,
                    result |-> ret.result]
    /\ pc' = "reported"
    /\ last' = Snapshot("find_vulnerability_description", None)
    /\ UNCHANGED <<catalog_dir, has_overflow_checks, result, visitor, todo, walked,
                   items_used, shadow>>

\* The detection engine on the functions and plain items of a program, in
\* a checkout without a catalog directory.
Next ==
    \/ Analyze
    \/ AnalyzeFileReadError
    \/ AnalyzeFileParseError
    \/ AnalyzeFileVisit
    \/ VisitFileItem
    \/ CheckFunction
    \/ CheckFunctionExit
    \/ CheckStruct
    \/ CheckEnum
    \/ VisitItem
    \/ VisitExpr
    \/ VisitExprBinary
    \/ VisitExprLit
    \/ AnalyzeFileDone
    \/ AnalyzeReturn

Spec == Init /\ [][Next]_vars

\* The traversal of arithmetic in functions, modules and impl blocks.
NextArith ==
    \/ Analyze
    \/ AnalyzeFileVisit
    \/ VisitFileArithItem
    \/ CheckFunction
    \/ CheckFunctionExit
    \/ VisitItem
    \/ VisitExpr
    \/ VisitExprBinary
    \/ VisitExprLit
    \/ AnalyzeFileDone
    \/ AnalyzeReturn

SpecArith == Init /\ [][NextArith]_vars

\* Sibling functions that access and validate remaining accounts.
NextSiblings ==
    \/ Analyze
    \/ AnalyzeFileVisit
    \/ VisitFileSibling
    \/ CheckFunction
    \/ CheckFunctionExit
    \/ VisitExpr
    \/ AnalyzeFileDone
    \/ AnalyzeReturn

SpecSiblings == Init /\ [][NextSiblings]_vars

\* The struct checks on accounts structs.
NextStruct ==
    \/ Analyze
    \/ AnalyzeFileVisit
    \/ VisitFileStruct
    \/ CheckStruct
    \/ AnalyzeFileDone
    \/ AnalyzeReturn

SpecStruct == Init /\ [][NextStruct]_vars

\* Whole runs of a small program, over every catalog directory.
NextRun ==
    \/ Analyze
    \/ AnalyzeFileReadError
    \/ AnalyzeFileParseError
    \/ AnalyzeFileVisit
    \/ VisitFileRunItem
    \/ CheckFunction
    \/ CheckFunctionExit
    \/ CheckStruct
    \/ CheckEnum
    \/ VisitExpr
    \/ VisitExprBinary
    \/ AnalyzeFileDone
    \/ AnalyzeReturn

SpecRun == InitRun /\ [][NextRun]_vars

\* Position resolution over file texts and snippets.
NextText ==
    \/ Analyze
    \/ AnalyzeFileVisitText
    \/ VisitFileTextItem
    \/ CheckFunction
    \/ CheckFunctionExit
    \/ VisitExpr
    \/ VisitorPanics
    \/ AnalyzeFileDone
    \/ AnalyzeReturn

SpecText == Init /\ [][NextText]_vars

\* The files of a project, walked in any order.
NextOrder ==
    \/ Analyze
    \/ AnalyzeProjectFile
    \/ CheckFunction
    \/ CheckFunctionExit
    \/ CheckStruct
    \/ CheckEnum
    \/ VisitExpr
    \/ VisitExprBinary
    \/ AnalyzeFileDone
    \/ AnalyzeReturn

SpecOrder == Init /\ [][NextOrder]_vars

\* The report's lookups in the catalog of a run.
NextReport ==
    \/ Analyze
    \/ AnalyzeReturn
    \/ FindVulnerabilityDescription

SpecReport == InitReport /\ [][NextReport]_vars

\* The expression checks on functions and an impl block.
NextExpr ==
    \/ Analyze
    \/ AnalyzeFileVisit
    \/ VisitFileExprItem
    \/ CheckFunction
    \/ CheckFunctionExit
    \/ VisitItem
    \/ VisitExpr
    \/ VisitExprBinary
    \/ AnalyzeFileDone
    \/ AnalyzeReturn

SpecExpr == Init /\ [][NextExpr]_vars

\* Functions with findings on entry, in the body and at exit.
NextExit ==
    \/ Analyze
    \/ AnalyzeFileVisit
    \/ VisitFileExitItem
    \/ CheckFunction
    \/ CheckFunctionExit
    \/ VisitExpr
    \/ AnalyzeFileDone
    \/ AnalyzeReturn

SpecExit == Init /\ [][NextExit]_vars

\* Functions that derive program addresses.
NextBump ==
    \/ Analyze
    \/ AnalyzeFileVisit
    \/ VisitFileBumpItem
    \/ CheckFunction
    \/ CheckFunctionExit
    \/ VisitExpr
    \/ AnalyzeFileDone
    \/ AnalyzeReturn

SpecBump == Init /\ [][NextBump]_vars

\* Functions with integer literals.
NextLit ==
    \/ Analyze
    \/ AnalyzeFileVisit
    \/ VisitFileLitItem
    \/ CheckFunction
    \/ CheckFunctionExit
    \/ VisitExpr
    \/ VisitExprBinary
    \/ VisitExprLit
    \/ AnalyzeFileDone
    \/ AnalyzeReturn

SpecLit == Init /\ [][NextLit]_vars

\* Accounts structs with program-derived accounts.
NextPda ==
    \/ Analyze
    \/ AnalyzeFileVisit
    \/ VisitFilePdaStruct
    \/ CheckStruct
    \/ AnalyzeFileDone
    \/ AnalyzeReturn

SpecPda == Init /\ [][NextPda]_vars

\* Structs of account data.
NextData ==
    \/ Analyze
    \/ AnalyzeFileVisit
    \/ VisitFileDataStruct
    \/ CheckStruct
    \/ AnalyzeFileDone
    \/ AnalyzeReturn

SpecData == Init /\ [][NextData]_vars

\* Impl blocks with methods.
NextMethod ==
    \/ Analyze
    \/ AnalyzeFileVisit
    \/ VisitFileMethodItem
    \/ VisitItem
    \/ CheckFunction
    \/ CheckFunctionExit
    \/ VisitExpr
    \/ AnalyzeFileDone
    \/ AnalyzeReturn

SpecMethod == Init /\ [][NextMethod]_vars

\* Functions and accounts structs with vulnerabilities.
NextSeverity ==
    \/ Analyze
    \/ AnalyzeFileVisit
    \/ VisitFileVulnerableItem
    \/ CheckFunction
    \/ CheckFunctionExit
    \/ CheckStruct
    \/ VisitExpr
    \/ AnalyzeFileDone
    \/ AnalyzeReturn

SpecSeverity == Init /\ [][NextSeverity]_vars

\* ------------------------------------------------------------ properties
\* The findings the call made last has appended.
NewVulnerabilities == SubSeq(result.vulnerabilities, last.nv + 1, Len(result.vulnerabilities))
NewWarnings        == SubSeq(result.warnings, last.nw + 1, Len(result.warnings))
NewInfo            == SubSeq(result.info, last.ni + 1, Len(result.info))

\* The findings appended since the traversal reached the file's current item.
ItemVulnerabilities ==
    SubSeq(result.vulnerabilities, last.top.val.nv + 1, Len(result.vulnerabilities))
ItemInfo == SubSeq(result.info, last.top.val.ni + 1, Len(result.info))

\* How many elements of seq have a description containing text.
Mentioning(seq, text) ==
    Cardinality({i \in DOMAIN seq : Contains(seq[i].description, text)})

\* How many vulnerabilities of seq have this severity and a description
\* containing text.
Rated(seq, severity, text) ==
    Cardinality({i \in DOMAIN seq : /\ seq[i].severity = severity
                                    /\ Contains(seq[i].description, text)})

IsInitLike(name) ==
    Contains(name, "init") \/ Contains(name, "initialize") \/ Contains(name, "create")

\* The body has an `if` statement on is_initialized.
HasInitGuard(block) ==
    \E i \in DOMAIN block :
        /\ block[i].k = "Expr"
        /\ block[i].expr.k = "If"
        /\ Contains(ExprText(block[i].expr.cond), "is_initialized")

HasNestedFn(block) == \E i \in DOMAIN block : block[i].k = "Item"

\* C1: when check_function finishes a function whose name contains
\* "init", "initialize" or "create", it has appended exactly one High
\* "Initialization function without reinitialization check" if the body's
\* text lacks "is_initialized", and none if the body has an
\* `if is_initialized` guard, whatever the body declares besides.
C1_ReinitCheckPerInitFunction ==
    (last.ev = "check_function_exit" /\ IsInitLike(last.node.ident)) =>
        LET n == Rated(NewVulnerabilities, "High",
                       "Initialization function without reinitialization check")
        IN /\ ~Contains(BlockText(last.node.block), "is_initialized") => n = 1
           /\ HasInitGuard(last.node.block) => n = 0

\* An initializer without a guard whose body declares a function.
C1_InitFunctionDeclaringFunction ==
    /\ last.ev = "check_function_exit"
    /\ IsInitLike(last.node.ident)
    /\ HasNestedFn(last.node.block)
    /\ ~Contains(BlockText(last.node.block), "is_initialized")

\* The add, sub and mul nodes of an expression, a block, an item.
RECURSIVE ArithInExpr(_), ArithInExprs(_, _), ArithInBlock(_, _), ArithInItem(_),
          ArithInItems(_, _), ArithInMethods(_, _)
ArithInExpr(e) ==
    CASE e.k = "Binary"     -> (IF e.op \in {"Add", "Sub", "Mul"} THEN 1 ELSE 0)
                                 + ArithInExpr(e.left) + ArithInExpr(e.right)
      [] e.k = "Field"      -> ArithInExpr(e.base)
      [] e.k = "MethodCall" -> ArithInExpr(e.receiver) + ArithInExprs(e.args, 1)
      [] e.k = "Call"       -> ArithInExpr(e.func) + ArithInExprs(e.args, 1)
      [] e.k = "Cast"       -> ArithInExpr(e.expr)
      [] e.k = "Paren"      -> ArithInExpr(e.expr)
      [] e.k = "If"         -> ArithInExpr(e.cond) + ArithInBlock(e.then_branch, 1)
      [] OTHER              -> 0
ArithInExprs(es, i) ==
    IF i > Len(es) THEN 0 ELSE ArithInExpr(es[i]) + ArithInExprs(es, i + 1)
ArithInBlock(ss, i) ==
    IF i > Len(ss) THEN 0
    ELSE (CASE ss[i].k = "Expr"  -> ArithInExpr(ss[i].expr)
            [] ss[i].k = "Local" -> ArithInExpr(ss[i].init)
            [] ss[i].k = "Item"  -> ArithInItem(ss[i].item))
         + ArithInBlock(ss, i + 1)
ArithInItem(it) ==
    CASE it.k = "Fn"   -> ArithInBlock(it.block, 1)
      [] it.k = "Mod"  -> ArithInItems(it.items, 1)
      [] it.k = "Impl" -> ArithInMethods(it.items, 1)
      [] OTHER         -> 0
ArithInItems(its, i) ==
    IF i > Len(its) THEN 0 ELSE ArithInItem(its[i]) + ArithInItems(its, i + 1)
ArithInMethods(ms, i) ==
    IF i > Len(ms) THEN 0 ELSE ArithInBlock(ms[i].block, 1) + ArithInMethods(ms, i + 1)

IsArithNode(e) == e.k = "Binary" /\ e.op \in {"Add", "Sub", "Mul"}

\* C2: every add, sub or mul node visited yields exactly one finding. Once
\* an item of the file is traversed, the High "Potential arithmetic
\* overflow/underflow" vulnerabilities appended for it are as many as its
\* add, sub and mul nodes and no arithmetic Info is appended when the
\* overflow-checking fact is false; the arithmetic Infos are as many and
\* no such vulnerability is appended when it is true. No call on the
\* visitor appends more than one of them.
C2_OneFindingPerArithmeticNode ==
    /\ (pc = "visit" /\ todo = <<>> /\ last.top.some) =>
          LET n == ArithInItem(last.top.val.item)
              vulnerable == Rated(ItemVulnerabilities, "High",
                                  "Potential arithmetic overflow/underflow")
              protected  == Mentioning(ItemInfo,
                                  "Arithmetic operation with runtime overflow protection")
          IN IF has_overflow_checks
             THEN protected = n /\ vulnerable = 0
             ELSE vulnerable = n /\ protected = 0
    /\ last.ev \in {"visit_expr", "visit_expr_binary"} =>
          Mentioning(NewVulnerabilities, "Potential arithmetic overflow/underflow")
            + Mentioning(NewInfo, "Arithmetic operation with runtime overflow protection")
          = (IF IsArithNode(last.node) THEN 1 ELSE 0)

\* a * b - c + d == 5000000000 has been traversed: three findings.
C2_NestedArithmeticTraversed ==
    /\ pc = "visit"
    /\ todo = <<>>
    /\ last.top.some
    /\ ArithInItem(last.top.val.item) = 3
    /\ Len(last.top.val.item.block) = 1
    /\ Len(ItemVulnerabilities) + Len(ItemInfo) = 3

\* What the visitor makes of one call of the traversal.
Dispatch(c, e) ==
    CASE e.ev = "check_function"      -> check_function(c, e.node)
      [] e.ev = "check_function_exit" -> check_function_exit(c, e.node)
      [] e.ev = "check_struct"        -> check_struct(c, e.node)
      [] e.ev = "check_enum"          -> check_enum(c, e.node)
      [] e.ev = "visit_item"          -> visit_item(c, e.node)
      [] e.ev = "visit_expr"          -> visit_expr(c, e.node)
      [] e.ev = "visit_expr_binary"   -> visit_expr_binary(c, e.node)
      [] e.ev = "visit_expr_lit"      -> visit_expr_lit(c, e.node)

RECURSIVE Traverse(_, _, _)
Traverse(c, events, i) ==
    IF i > Len(events) THEN c ELSE Traverse(Dispatch(c, events[i]), events, i + 1)

\* The findings of an item that is the only one of its file.
Alone(item) ==
    Traverse([v |-> AnchorVisitorNew(visitor.current_file, has_overflow_checks,
                                     Some(FileText), MissingDir),
              r |-> DefaultResult],
             ItemEvents(item), 1).r

RemainingFinding == "Accessing remaining_accounts without proper validation"

\* C3: when check_function finishes a function that declares no function
\* in its body, it has appended the High "Accessing remaining_accounts
\* without proper validation" exactly if that function alone in a file
\* gets it, whatever functions were visited before it; a function whose
\* body does not mention remaining_accounts gets none.
C3_SiblingFunctionsIsolated ==
    (last.ev = "check_function_exit" /\ ~HasNestedFn(last.node.block)) =>
        LET n == Rated(NewVulnerabilities, "High", RemainingFinding)
        IN /\ n = Mentioning(Alone(last.node).vulnerabilities, RemainingFinding)
           /\ ~Contains(BlockText(last.node.block), "remaining_accounts") => n = 0

\* The second of two sibling functions finishes without the finding that
\* the first one got.
C3_SiblingAfterUnvalidatedAccess ==
    /\ last.ev = "check_function_exit"
    /\ items_used = 2
    /\ todo = <<>>
    /\ ~HasNestedFn(last.node.block)
    /\ ~Contains(BlockText(last.node.block), "remaining_accounts")
    /\ Mentioning(result.vulnerabilities, RemainingFinding) = 1

\* C4: when check_function finishes a function in whose body a CPI
\* occurred and a field or method access other than reload was recorded
\* after it, it has appended a Critical "Account data accessed after CPI
\* without reload".
C4_ReloadAfterCpi ==
    (/\ last.ev = "check_function_exit"
     /\ last.v.cpi_performed
     /\ last.v.accessed_accounts # <<>>) =>
        Rated(NewVulnerabilities, "Critical",
              "Account data accessed after CPI without reload") >= 1

\* The struct derives Accounts.
IsAccountsStruct(item) ==
    \E a \in DOMAIN item.attrs : Contains(AttrText(item.attrs[a]), "Accounts")

\* Some attribute of the field mentions the word.
FieldMentions(field, word) ==
    \E a \in DOMAIN field.attrs : Contains(AttrText(field.attrs[a]), word)

\* The vulnerabilities among seq that name the field.
AboutField(seq, name) ==
    {i \in DOMAIN seq : \/ Contains(seq[i].description, "field " \o name)
                         \/ Contains(seq[i].description, "'" \o name \o "'")}

\* C5: when check_struct finishes an accounts struct, every field of it
\* whose type contains AccountInfo and none of whose attributes mentions
\* account, signer, constraint or owner has exactly one vulnerability:
\* Critical and mentioning arbitrary CPI if the field's name contains
\* "program" or "Program", High "Unchecked AccountInfo" otherwise. If an
\* attribute mentions one of the words the field has no vulnerability of
\* the rule, and a Warning exactly if its name is program-like.
C5_UncheckedAccountInfoField ==
    (last.ev = "check_struct" /\ IsAccountsStruct(last.node)) =>
        \A f \in DOMAIN last.node.fields :
            LET field == last.node.fields[f]
                name  == field.ident.val
                constrained == \/ FieldMentions(field, "account")
                               \/ FieldMentions(field, "signer")
                               \/ FieldMentions(field, "constraint")
                               \/ FieldMentions(field, "owner")
                program_like == Contains(name, "program") \/ Contains(name, "Program")
                mine == AboutField(NewVulnerabilities, name)
                warned == Mentioning(NewWarnings,
                              "Program account " \o name \o " uses AccountInfo")
            IN Contains(TokenString(field.ty), "AccountInfo") =>
                 IF ~constrained
                 THEN /\ Cardinality(mine) = 1
                      /\ warned = 0
                      /\ \A i \in mine :
                           IF program_like
                           THEN /\ NewVulnerabilities[i].severity = "Critical"
                                /\ Contains(NewVulnerabilities[i].description,
                                            "arbitrary CPI")
                           ELSE /\ NewVulnerabilities[i].severity = "High"
                                /\ Contains(NewVulnerabilities[i].description,
                                            "Unchecked AccountInfo")
                 ELSE /\ Mentioning(NewVulnerabilities, "Unchecked") = 0
                      /\ warned = (IF program_like THEN 1 ELSE 0)

\* An unconstrained AccountInfo field whose name contains "Program" without
\* ending in "_program" has been checked.
C5_ProgramLikeFieldChecked ==
    /\ last.ev = "check_struct"
    /\ IsAccountsStruct(last.node)
    /\ \E f \in DOMAIN last.node.fields :
          /\ last.node.fields[f].ident.val = "tokenProgram"
          /\ last.node.fields[f].attrs = <<>>
    /\ Len(NewVulnerabilities) = 1

\* C6: when check_struct finishes an accounts struct, a field whose
\* account attribute references the associated-token marker, or whose name
\* contains "ata", "token_account" or "tokenAccount", has exactly one
\* Critical "Associated Token Account ... initialized with 'init'" if the
\* attribute contains "init" but not "init_if_needed", and none if it
\* contains "init_if_needed".
C6_AtaInitializedWithInit ==
    (last.ev = "check_struct" /\ IsAccountsStruct(last.node)) =>
        \A f \in DOMAIN last.node.fields :
            LET field == last.node.fields[f]
                name  == field.ident.val
                n == Rated(NewVulnerabilities, "Critical",
                           "Associated Token Account '" \o name
                             \o "' initialized with 'init'")
            IN \A a \in DOMAIN field.attrs :
                 LET attr == field.attrs[a]
                     is_ata == \/ \E t \in DOMAIN attr.args : attr.args[t] = "associated_token"
                               \/ Contains(name, "ata")
                               \/ Contains(name, "token_account")
                               \/ Contains(name, "tokenAccount")
                     init == \E t \in DOMAIN attr.args : attr.args[t] = "init"
                     init_if_needed ==
                         \E t \in DOMAIN attr.args : attr.args[t] = "init_if_needed"
                 IN (attr.path = "account" /\ is_ata) =>
                      /\ (init /\ ~init_if_needed) => n = 1
                      /\ init_if_needed => n = 0

\* C7: the description catalog never influences detection. Whenever the
\* catalog directory loads, populated or not, the vulnerabilities, the
\* warnings and the info items of the run are those of the same run, with
\* the same files and the same overflow-checking fact, over an absent
\* catalog directory.
C7_CatalogNeverInfluencesDetection ==
    (pc # "start" /\ load_vulnerability_descriptions(catalog_dir).ok) =>
        /\ result.vulnerabilities = shadow.r.vulnerabilities
        /\ result.warnings = shadow.r.warnings
        /\ result.info = shadow.r.info

\* A run over a populated catalog has returned vulnerabilities, warnings
\* and info items.
C7_RunOverPopulatedCatalog ==
    /\ pc = "returned"
    /\ ret.kind = "Ok"
    /\ DOMAIN ret.result.vulnerability_descriptions # {}
    /\ ret.result.vulnerabilities # <<>>
    /\ ret.result.warnings # <<>>
    /\ ret.result.info # <<>>

\* C8: loading the description catalog never fails the run. Whatever the
\* state of the catalog directory, its index document and its detail
\* documents, analyze() does not return an error before it has walked
\* the files.
C8_CatalogNeverFailsRun ==
    ~(pc = "returned" /\ ret.kind = "Err" /\ last.ev = "analyze")

\* C9: a source file that fails to parse never reaches the visitor. The
\* step that finds it appends exactly one Warning, at line 0 and column 0
\* of that file's path, and changes no other finding; no visitor is made
\* and the walk goes on. A run returns an error only from loading the
\* catalog or from reading a file.
C9_ParseFailureIsOneWarning ==
    /\ [][last'.ev = "parse_error" =>
            /\ Len(walked') = Len(walked) + 1
            /\ Len(result'.warnings) = Len(result.warnings) + 1
            /\ SubSeq(result'.warnings, 1, Len(result.warnings)) = result.warnings
            /\ result'.warnings[Len(result'.warnings)].location
                 = [file |-> walked'[Len(walked')], line |-> 0, column |-> 0]
            /\ result'.vulnerabilities = result.vulnerabilities
            /\ result'.info = result.info
            /\ visitor = NoVisitor
            /\ visitor' = NoVisitor
            /\ todo' = <<>>
            /\ pc' = "walk"]_vars
    /\ [](pc = "returned" /\ last.ev \notin {"analyze", "read_error"} => ret.kind = "Ok")

\* A run with earlier findings has returned Ok after a file failed to
\* parse.
C9_RunWithUnparsableFileReturned ==
    /\ pc = "returned"
    /\ ret.kind = "Ok"
    /\ ret.result.vulnerabilities # <<>>
    /\ Mentioning(ret.result.warnings, "Failed to parse file") = 1
    /\ ret.result.warnings[Len(ret.result.warnings)].location.file = walked[Len(walked)]

IsPrefix(s, t) == Len(s) <= Len(t) /\ SubSeq(t, 1, Len(s)) = s

\* The place of a finding's file in the walk; the manifest comes first.
FileRank(file) ==
    IF \E i \in DOMAIN walked : walked[i] = file
    THEN CHOOSE i \in DOMAIN walked : walked[i] = file
    ELSE 0

InFileOrder(seq) ==
    \A i, j \in DOMAIN seq :
        i < j => FileRank(seq[i].location.file) <= FileRank(seq[j].location.file)

\* C10: the AnalysisResult is append-only during a run. Every step leaves
\* each of the vulnerabilities, the warnings and the info items a prefix
\* of what it is after the step, and each sequence is always in the order
\* of the walk over the files.
C10_ResultAppendOnly ==
    /\ [][/\ IsPrefix(result.vulnerabilities, result'.vulnerabilities)
          /\ IsPrefix(result.warnings, result'.warnings)
          /\ IsPrefix(result.info, result'.info)]_vars
    /\ [](/\ InFileOrder(result.vulnerabilities)
          /\ InFileOrder(result.warnings)
          /\ InFileOrder(result.info))

\* A run over two files has returned two warnings of the second file after
\* a warning of the first.
C10_FindingsOfTwoFiles ==
    /\ pc = "returned"
    /\ ret.kind = "Ok"
    /\ Len(walked) = 2
    /\ Len(ret.result.warnings) = 3
    /\ ret.result.warnings[1].location.file = walked[1]
    /\ ret.result.warnings[2].location.file = walked[2]
    /\ ret.result.warnings[3].location.file = walked[2]
    /\ ret.result.warnings[2] # ret.result.warnings[3]

\* C11: no detection check aborts the traversal. For every parsed file
\* and every file text, each call the traversal makes on the visitor,
\* position resolution included, returns normally: the run never ends in
\* a panic.
C11_NoCheckAbortsTraversal == pc # "panicked"

\* The findings of seq located in the file.
FindingsOf(seq, file) ==
    LET at     == {i \in DOMAIN seq : seq[i].location.file = file}
        Nth(k) == CHOOSE i \in at : Cardinality({j \in at : j < i}) = k - 1
    IN [k \in 1..Cardinality(at) |-> seq[Nth(k)]]

\* The findings of a project file analysed by itself.
FileAlone(i) ==
    Traverse([v |-> AnchorVisitorNew(PathOf(i), has_overflow_checks, Some(FileText),
                                     MissingDir),
              r |-> DefaultResult],
             ItemListEvents(ProjectFile(i), 1), 1).r

\* C12: the core is traversal-order-independent. Between files and at the
\* end of the run, in whatever order the files were walked, the findings
\* located in each walked file are, in the same order, those the file gets
\* when it is analysed by itself, a file not walked has none, and no
\* visitor is left from the file before.
C12_TraversalOrderIndependent ==
    pc \in {"walk", "returned"} =>
        /\ visitor = NoVisitor
        /\ \A i \in 1..(MaxFiles + 1) :
              LET alone == IF \E w \in DOMAIN walked : walked[w] = PathOf(i)
                           THEN FileAlone(i) ELSE DefaultResult
              IN /\ FindingsOf(result.vulnerabilities, PathOf(i)) = alone.vulnerabilities
                 /\ FindingsOf(result.warnings, PathOf(i)) = alone.warnings
                 /\ FindingsOf(result.info, PathOf(i)) = alone.info

\* A run has walked the second file of the project before the first, and
\* both have vulnerabilities.
C12_FilesWalkedInReverse ==
    /\ pc = "returned"
    /\ ret.kind = "Ok"
    /\ walked = <<PathOf(2), PathOf(1)>>
    /\ FindingsOf(ret.result.vulnerabilities, PathOf(1)) # <<>>
    /\ FindingsOf(ret.result.vulnerabilities, PathOf(2)) # <<>>
    /\ ret.result.vulnerabilities[1].location.file = PathOf(2)

\* C13: the catalog lookup returns an entry whose key contains the keyword
\* as a case-insensitive substring whenever there is such a key (keyword
\* "reinit" matches key "Reinitialization"), and none only when no key
\* contains the keyword ignoring case.
C13_LookupIgnoresCase ==
    pc = "reported" =>
        LET descriptions == ret.result.vulnerability_descriptions
            hits == {k \in DOMAIN descriptions :
                        Contains(to_lowercase(k), to_lowercase(ret.key))}
        IN IF hits = {} THEN ~ret.found.some
           ELSE /\ ret.found.some
                /\ \E k \in hits : ret.found.val = descriptions[k]

\* The statements of a block that are no items.
RECURSIVE WithoutItems(_, _)
WithoutItems(block, i) ==
    IF i > Len(block) THEN <<>>
    ELSE (IF block[i].k = "Item" THEN <<>> ELSE <<block[i]>>) \o WithoutItems(block, i + 1)

\* The function without the function items its body declares.
WithoutNested(item_fn) == [item_fn EXCEPT !.block = WithoutItems(@, 1)]

\* C14: per-function state does not leak between a function and a
\* function item nested in its body. When check_function finishes a
\* function, the reinitialization High, the remaining-accounts High and
\* the bump Critical it has appended are those the function gets alone in
\* a file with the nested function items removed (for a nested function:
\* those it gets as a top-level function), and the reinitialization-guard
\* Infos of a top-level function's body are those of that body.
C14_NestedFunctionsIsolated ==
    last.ev = "check_function_exit" =>
        LET plain == Alone(WithoutNested(last.node)) IN
        /\ \A d \in {ReinitDescription, RemainingDescription, BumpDescription} :
              Mentioning(NewVulnerabilities, d) = Mentioning(plain.vulnerabilities, d)
        /\ (last.top.some /\ last.node = last.top.val.item) =>
              Mentioning(ItemInfo, "Detected is_initialized")
                = Mentioning(plain.info, "Detected is_initialized")

\* C15: on entry to every function check all per-function transient state
\* is reset. When check_function has run up to the traversal of the body,
\* and again when it has returned, the remaining-accounts flags, the CPI
\* flag and the bump flag of the visitor are false and the list of
\* accesses after a CPI is empty, whatever items were visited before.
C15_FunctionStateReset ==
    last.ev \in {"check_function", "check_function_exit"} =>
        /\ ~visitor.has_remaining_accounts_access
        /\ ~visitor.has_remaining_accounts_validation
        /\ ~visitor.cpi_performed
        /\ ~visitor.non_canonical_bump_detected
        /\ visitor.accessed_accounts = <<>>

\* The warnings appended since the traversal reached the file's current item.
ItemWarnings == SubSeq(result.warnings, last.top.val.nw + 1, Len(result.warnings))

\* The place of an exit-time finding in the order of the exit, 0 for any
\* other finding.
ExitRank(description) ==
    CASE description = "Accessing remaining_accounts without proper validation"     -> 1
      [] description = "Initialization function without reinitialization check"     -> 2
      [] description = "Account data accessed after CPI without reload()"           -> 3
      [] description = "Possible bump seed canonicalization vulnerability detected" -> 4
      [] OTHER -> 0

\* How many of the words validate, error and access the name contains.
AdvisoryWords(name) ==
    Cardinality({w \in {"validate", "error", "access"} : Contains(name, w)})

\* C16: the exit-time findings of a function come after every finding of
\* its body, in the order remaining-accounts High, reinitialization High,
\* CPI-without-reload Critical, bump Critical, and its name-based Warnings
\* come before every finding of its body. The exit appends only such
\* vulnerabilities, each at most once and in that order, after the
\* vulnerabilities of the body, none of which is one of them; the entry
\* appends one Warning for each of the words validate, error and access in
\* the name and nothing else, before any other finding of the function;
\* no later call appends a name-based Warning.
C16_ExitFindingsOrdered ==
    /\ last.ev = "check_function_exit" =>
          LET body == Len(ItemVulnerabilities) - Len(NewVulnerabilities) IN
          /\ \A i \in DOMAIN NewVulnerabilities :
                ExitRank(NewVulnerabilities[i].description) > 0
          /\ \A i, j \in DOMAIN NewVulnerabilities :
                i < j => ExitRank(NewVulnerabilities[i].description)
                           < ExitRank(NewVulnerabilities[j].description)
          /\ \A i \in 1..body : ExitRank(ItemVulnerabilities[i].description) = 0
          /\ SubSeq(ItemVulnerabilities, body + 1, Len(ItemVulnerabilities))
                = NewVulnerabilities
          /\ NewWarnings = <<>>
          /\ NewInfo = <<>>
    /\ last.ev = "check_function" =>
          /\ Len(NewWarnings) = AdvisoryWords(last.node.ident)
          /\ \A i \in DOMAIN NewWarnings :
                Contains(NewWarnings[i].description, "in name")
          /\ ItemWarnings = NewWarnings
          /\ ItemVulnerabilities = <<>>
          /\ ItemInfo = <<>>
    /\ last.ev \in {"visit_expr", "check_function_exit"} =>
          Mentioning(NewWarnings, "in name") = 0

\* create_access has finished: the Critical of its body, then the
\* remaining-accounts High, the reinitialization High and the bump Critical.
C16_ThreeExitFindingsAfterBody ==
    /\ last.ev = "check_function_exit"
    /\ last.node.ident = "create_access"
    /\ Len(NewVulnerabilities) = 3
    /\ Len(ItemVulnerabilities) = 4
    /\ ItemVulnerabilities[1].description = CpiDescription
    /\ Len(ItemWarnings) = 1

\* The expression nodes of an expression, a list, a block, in the order of
\* the source: a node, then the nodes below it from left to right. The
\* body of a function item declared in a block is part of the block.
RECURSIVE ExprNodes(_), ExprListNodes(_, _), BlockNodes(_, _)
ExprNodes(e) ==
    <<e>> \o
    (CASE e.k = "Binary"     -> ExprNodes(e.left) \o ExprNodes(e.right)
       [] e.k = "Field"      -> ExprNodes(e.base)
       [] e.k = "MethodCall" -> ExprNodes(e.receiver) \o ExprListNodes(e.args, 1)
       [] e.k = "Call"       -> ExprNodes(e.func) \o ExprListNodes(e.args, 1)
       [] e.k = "Cast"       -> ExprNodes(e.expr)
       [] e.k = "Paren"      -> ExprNodes(e.expr)
       [] e.k = "If"         -> ExprNodes(e.cond) \o BlockNodes(e.then_branch, 1)
       [] OTHER              -> <<>>)
ExprListNodes(es, i) ==
    IF i > Len(es) THEN <<>> ELSE ExprNodes(es[i]) \o ExprListNodes(es, i + 1)
BlockNodes(ss, i) ==
    IF i > Len(ss) THEN <<>>
    ELSE (CASE ss[i].k = "Expr"  -> ExprNodes(ss[i].expr)
            [] ss[i].k = "Local" -> ExprNodes(ss[i].init)
            [] ss[i].k = "Item"  -> IF ss[i].item.k = "Fn"
                                    THEN BlockNodes(ss[i].item.block, 1)
                                    ELSE <<>>)
         \o BlockNodes(ss, i + 1)

\* The nodes the calls of visit_expr in a list of calls are made on.
CheckedNodes(calls) ==
    LET at == SelectSeq(calls, LAMBDA e : e.ev = "visit_expr")
    IN [i \in 1..Len(at) |-> at[i].node]

\* The traversal has entered a function that is an item of the file.
EnteredTopFunction ==
    /\ last.ev = "check_function"
    /\ last.top.some
    /\ last.node = last.top.val.item

\* C17: the expression check is applied to every expression node of a
\* function body exactly once, at any depth and in any position, the
\* direct operands of a binary expression included. When the traversal
\* has entered a function of the file, the calls of visit_expr it still
\* makes for the function are made on the expression nodes of the body,
\* each once, in the order of the source.
C17_EveryExpressionCheckedOnce ==
    EnteredTopFunction =>
        CheckedNodes(todo) = BlockNodes(last.node.block, 1)

\* The node is a validation pattern: an equality comparison whose left
\* operand is a field access named owner or key, or a method call whose
\* name contains check, verify, validate or assert.
IsValidation(e) ==
    \/ /\ e.k = "Binary"
       /\ e.op = "Eq"
       /\ e.left.k = "Field"
       /\ e.left.member \in {"owner", "key"}
    \/ /\ e.k = "MethodCall"
       /\ \E w \in {"check", "verify", "validate", "assert"} : Contains(e.method, w)

\* The traversal has finished a function that is an item of the file and
\* declares no function in its body.
LeftPlainTopFunction ==
    /\ last.ev = "check_function_exit"
    /\ last.top.some
    /\ last.node = last.top.val.item
    /\ ~HasNestedFn(last.node.block)

\* C18: validation is recognised by presence anywhere in the function,
\* also as an operand of a larger condition. When the traversal has
\* finished a function whose body contains a validation pattern at any
\* position, the visitor has recorded the validation and the function has
\* no remaining-accounts vulnerability.
C18_ValidationRecognisedAnywhere ==
    LET nodes == BlockNodes(last.node.block, 1) IN
    (LeftPlainTopFunction /\ \E i \in DOMAIN nodes : IsValidation(nodes[i])) =>
        /\ visitor.has_remaining_accounts_validation
        /\ Mentioning(ItemVulnerabilities, RemainingDescription) = 0

\* The node is a field access whose member is remaining_accounts.
IsRemainingAccess(e) == e.k = "Field" /\ e.member = "remaining_accounts"

\* C19: any field access whose member name is remaining_accounts records
\* the access, whatever its base expression, and a function gets exactly
\* one remaining-accounts High at exit iff an access is recorded and no
\* validation is, however many accesses occurred. When the traversal has
\* finished a function, an access anywhere in its body is recorded, and
\* the exit has appended one such High if the visitor had an access and no
\* validation recorded, none otherwise.
C19_RemainingAccessRecorded ==
    LET nodes == BlockNodes(last.node.block, 1) IN
    LeftPlainTopFunction =>
        /\ (\E i \in DOMAIN nodes : IsRemainingAccess(nodes[i]))
              => last.v.has_remaining_accounts_access
        /\ Rated(NewVulnerabilities, "High", RemainingDescription)
              = (IF /\ last.v.has_remaining_accounts_access
                    /\ ~last.v.has_remaining_accounts_validation
                 THEN 1 ELSE 0)
        /\ Mentioning(NewVulnerabilities, RemainingDescription)
              = Rated(NewVulnerabilities, "High", RemainingDescription)

\* The node is a call whose callee text contains the word.
IsCallTo(e, word) == e.k = "Call" /\ Contains(ExprText(e.func), word)

\* How many nodes of the body of a function are calls to the word.
CallsTo(item_fn, word) ==
    LET nodes == BlockNodes(item_fn.block, 1)
    IN Cardinality({i \in DOMAIN nodes : IsCallTo(nodes[i], word)})

\* C20: each call whose callee text contains invoke emits exactly one
\* arbitrary-CPI Critical when it is visited and sets cpi_performed, each
\* call whose callee text contains CpiContext emits exactly one
\* Cross-Program Invocation Warning and sets cpi_performed, and
\* cpi_performed stays true until the function exits. A visit of such a
\* call appends exactly that finding and leaves the flag set; when the
\* traversal has finished a function of the file, the function has one
\* such Critical for every invoke call and one such Warning for every
\* CpiContext call of its body; and no call made while the traversal is
\* inside a function of the file clears a flag that was set.
C20_CpiCallsReportedAndTracked ==
    /\ (last.ev = "visit_expr" /\ IsCallTo(last.node, "invoke")) =>
          /\ Rated(NewVulnerabilities, "Critical", CpiDescription) = 1
          /\ Len(NewVulnerabilities) = 1
          /\ visitor.cpi_performed
    /\ (last.ev = "visit_expr" /\ IsCallTo(last.node, "CpiContext")) =>
          /\ Mentioning(NewWarnings, "Cross-Program Invocation detected") = 1
          /\ visitor.cpi_performed
    /\ (last.ev = "check_function_exit" /\ last.top.some
          /\ last.node = last.top.val.item) =>
          /\ Rated(ItemVulnerabilities, "Critical", CpiDescription)
                = CallsTo(last.node, "invoke")
          /\ Mentioning(ItemWarnings, "Cross-Program Invocation detected")
                = CallsTo(last.node, "CpiContext")
    /\ (/\ last.ev \in {"check_function", "visit_expr", "visit_expr_binary",
                        "visit_expr_lit", "check_function_exit"}
        /\ last.top.some
        /\ last.top.val.item.k = "Fn"
        /\ ~(last.ev = "check_function_exit" /\ last.node = last.top.val.item)
        /\ last.v.cpi_performed) =>
          visitor.cpi_performed

\* The function declares a parameter whose identifier contains bump.
HasBumpParam(item_fn) ==
    \E i \in DOMAIN item_fn.inputs : Contains(item_fn.inputs[i], "bump")

\* The body contains a method call named exactly create_program_address.
DerivesAddress(item_fn) ==
    LET nodes == BlockNodes(item_fn.block, 1)
    IN \E i \in DOMAIN nodes : /\ nodes[i].k = "MethodCall"
                                /\ nodes[i].method = "create_program_address"

\* C21: a function gets the bump canonicalization Critical at exit,
\* exactly once, iff it declares a parameter whose identifier contains
\* bump and its body contains a method call named exactly
\* create_program_address; a function without such a parameter never gets
\* it, whatever functions were visited before. When the traversal has
\* finished a function of the file, the exit has appended one such
\* Critical if both hold and none otherwise, and the body has appended
\* none.
C21_BumpFindingAtExit ==
    (last.ev = "check_function_exit" /\ last.top.some
      /\ last.node = last.top.val.item) =>
        LET expected == IF HasBumpParam(last.node) /\ DerivesAddress(last.node)
                        THEN 1 ELSE 0 IN
        /\ Rated(NewVulnerabilities, "Critical", BumpDescription) = expected
        /\ Mentioning(ItemVulnerabilities, BumpDescription) = expected

\* How many integer literals of the body of a function exceed 4294967295.
LargeLiterals(item_fn) ==
    LET nodes == BlockNodes(item_fn.block, 1)
    IN Cardinality({i \in DOMAIN nodes : /\ nodes[i].k = "Lit"
                                          /\ DecLess("4294967295", nodes[i].digits)})

\* C22: every integer literal above 4294967295 yields exactly one Large
\* integer literal Warning and every other integer literal none, for all
\* magnitudes, also above the 64-bit unsigned maximum, and wherever the
\* literal occurs. When the traversal has finished a function of the
\* file, the function has one such Warning for each literal of its body
\* above 4294967295.
C22_LargeLiteralWarned ==
    (last.ev = "check_function_exit" /\ last.top.some
      /\ last.node = last.top.val.item) =>
        Mentioning(ItemWarnings, "Large integer literal detected")
          = LargeLiterals(last.node)

\* The tokens of the value of the bump constraint in the arguments of an
\* account attribute: from the token after `bump =` to the next comma.
BumpValue(args) ==
    LET at == {i \in DOMAIN args : /\ args[i] = "bump"
                                    /\ i < Len(args)
                                    /\ args[i + 1] = "="
                                    /\ (i = 1 \/ args[i - 1] = ",")}
    IN IF at = {} THEN <<>>
       ELSE LET i == CHOOSE j \in at : TRUE
                stops == {j \in (i + 2)..Len(args) : args[j] = ","}
                last_token == IF stops = {} THEN Len(args)
                              ELSE (CHOOSE j \in stops : \A k \in stops : j <= k) - 1
            IN SubSeq(args, i + 2, last_token)

\* The arguments have a constraint of this name.
HasConstraint(args, name) ==
    \E i \in DOMAIN args : args[i] = name /\ (i = 1 \/ args[i - 1] = ",")

\* C23: for an account attribute on a field of an accounts struct, a
\* literal bump of 0, 1 or 2 yields the hardcoded-bump Critical; any other
\* explicit bump expression yields the custom-bump Warning and never the
\* Critical; seeds without a bump yield the seeds-without-bump Warning; a
\* bare bump yields neither. When check_struct has run on an accounts
\* struct whose one field has one account attribute, the findings it has
\* appended are those of the attribute's bump constraint.
C23_BumpConstraintClassified ==
    (/\ last.ev = "check_struct"
     /\ Len(last.node.fields) = 1
     /\ Len(last.node.fields[1].attrs) = 2
     /\ last.node.fields[1].attrs[2].path = "account") =>
        LET args     == last.node.fields[1].attrs[2].args
            value    == BumpValue(args)
            literal  == value \in {<<"0">>, <<"1">>, <<"2">>}
            critical == Rated(NewVulnerabilities, "Critical", HardcodedBumpDescription)
            custom   == Mentioning(NewWarnings, "Custom bump value in anchor constraint")
            noBump   == Mentioning(NewWarnings, "PDA seeds constraint without bump constraint")
        IN /\ critical = (IF literal THEN 1 ELSE 0)
           /\ custom = (IF value # <<>> /\ ~literal THEN 1 ELSE 0)
           /\ noBump = (IF HasConstraint(args, "seeds") /\ ~HasConstraint(args, "bump")
                        THEN 1 ELSE 0)

\* The field's type is the typed-account wrapper Account<...>.
IsTypedAccount(field) ==
    /\ Len(field.ty) > 1
    /\ field.ty[1] = "Account"
    /\ field.ty[2] = "<"

\* C24: for every field of an accounts struct whose type is the
\* typed-account wrapper Account<...>, the Missing owner check Warning is
\* emitted iff no attribute of the field contains owner, the
\* space-without-init Warning iff some attribute contains space and none
\* contains init, and the init_if_needed caution iff some attribute
\* contains init_if_needed. When check_struct has run on an accounts
\* struct with one such field, the Warnings it has appended are these.
C24_TypedAccountFieldChecked ==
    (/\ last.ev = "check_struct"
     /\ IsAccountsStruct(last.node)
     /\ Len(last.node.fields) = 1
     /\ IsTypedAccount(last.node.fields[1])) =>
        LET attrs == last.node.fields[1].attrs IN
        /\ Mentioning(NewWarnings, "Missing owner check")
              = (IF ~AnyAttr(attrs, "owner") THEN 1 ELSE 0)
        /\ Mentioning(NewWarnings, "space specified without init")
              = (IF AnyAttr(attrs, "space") /\ ~AnyAttr(attrs, "init") THEN 1 ELSE 0)
        /\ Mentioning(NewWarnings, "Using init_if_needed")
              = (IF AnyAttr(attrs, "init_if_needed") THEN 1 ELSE 0)

\* The struct has a field of this name; of this name and type.
HasFieldNamed(item_struct, name) ==
    \E i \in DOMAIN item_struct.fields :
        /\ item_struct.fields[i].ident.some
        /\ item_struct.fields[i].ident.val = name
HasFieldTyped(item_struct, name, ty) ==
    \E i \in DOMAIN item_struct.fields :
        /\ item_struct.fields[i].ident.some
        /\ item_struct.fields[i].ident.val = name
        /\ item_struct.fields[i].ty = ty

\* C25 as stated: for a struct whose name contains Account, the missing
\* is_initialized Warning is emitted exactly once iff the struct is not an
\* accounts struct and has no boolean field named is_initialized; no
\* other struct receives it.
C25_MissingBooleanFieldWarned ==
    last.ev = "check_struct" =>
        Mentioning(NewWarnings, "missing is_initialized field")
          = (IF /\ Contains(last.node.ident, "Account")
                /\ ~IsAccountsStruct(last.node)
                /\ ~HasFieldTyped(last.node, "is_initialized", <<"bool">>)
             THEN 1 ELSE 0)

\* C25, amended: for a struct whose name contains Account, the missing
\* is_initialized Warning is emitted exactly once iff the struct is not an
\* accounts struct and has no field named is_initialized, of any type; an
\* accounts struct never receives it, and neither does a struct whose
\* name does not contain Account.
C25_MissingInitializedFieldWarned ==
    last.ev = "check_struct" =>
        Mentioning(NewWarnings, "missing is_initialized field")
          = (IF /\ Contains(last.node.ident, "Account")
                /\ ~IsAccountsStruct(last.node)
                /\ ~HasFieldNamed(last.node, "is_initialized")
             THEN 1 ELSE 0)

\* check_struct has warned about a struct of account data named
\* VaultAccount that has fields and none named is_initialized.
C25_AccountDataWithoutFlag ==
    /\ last.ev = "check_struct"
    /\ last.node.ident = "VaultAccount"
    /\ ~IsAccountsStruct(last.node)
    /\ last.node.fields # <<>>
    /\ ~HasFieldNamed(last.node, "is_initialized")
    /\ Mentioning(NewWarnings, "missing is_initialized field") = 1

\* The traversal is inside an impl block of the file; has finished it.
InsideImpl ==
    /\ pc = "visit"
    /\ last.top.some
    /\ last.top.val.item.k = "Impl"
    /\ last.ev \in {"visit_item", "visit_expr", "check_function", "check_function_exit"}
LeftImpl == InsideImpl /\ todo = <<>>

\* C26: function-level checks apply only to function items. For a method
\* of an impl block the expressions of the body are visited and the
\* expression-level findings are emitted, but no exit-time finding and no
\* name-based Warning is ever produced for it, however it is named and
\* whatever it accesses. While the traversal is inside an impl block no
\* call is a function check and the block has no exit-time vulnerability
\* and no name-based Warning; when it has finished the block, the
\* arithmetic findings, the arbitrary-CPI Criticals and the large-literal
\* Warnings of the block are as many as the add, sub and mul nodes, the
\* invoke calls and the large literals of its method.
C26_MethodsGetNoFunctionChecks ==
    /\ InsideImpl =>
          /\ last.ev \in {"visit_item", "visit_expr"}
          /\ \A i \in DOMAIN ItemVulnerabilities :
                ExitRank(ItemVulnerabilities[i].description) = 0
          /\ Mentioning(ItemWarnings, "in name") = 0
    /\ LeftImpl =>
          LET method == last.top.val.item.items[1] IN
          /\ Mentioning(ItemVulnerabilities, "Potential arithmetic overflow/underflow")
               + Mentioning(ItemInfo, "Arithmetic operation with runtime overflow protection")
               = ArithInBlock(method.block, 1)
          /\ Rated(ItemVulnerabilities, "Critical", CpiDescription)
               = CallsTo(method, "invoke")
          /\ Mentioning(ItemWarnings, "Large integer literal detected")
               = LargeLiterals(method)

\* The traversal has finished an impl block that comes after a function
\* of the file and whose method, named initialize, accesses
\* remaining_accounts and invokes a program: one Critical, nothing else.
C26_InitializerMethodVisited ==
    /\ LeftImpl
    /\ items_used = 2
    /\ last.top.val.item.items[1].ident = "initialize"
    /\ Len(last.top.val.item.items[1].block) = 2
    /\ Len(ItemVulnerabilities) = 1
    /\ ItemVulnerabilities[1].description = CpiDescription

\* C27: if reading a discovered source file fails, analyze() stops at
\* that file and returns an error. Once a read has failed the run has
\* returned the read error, which carries no result, so the findings of
\* the files before are not delivered; no visitor is left, and no further
\* step of the run follows: no later file is analyzed.
C27_ReadErrorStopsRun ==
    /\ [](last.ev = "read_error" =>
            /\ pc = "returned"
            /\ ret = [kind |-> "Err", err |-> "FileReadError"]
            /\ visitor = NoVisitor
            /\ todo = <<>>)
    /\ [][last.ev # "read_error"]_vars

\* The second file of a run could not be read after the first had given
\* vulnerabilities: the run has returned without them.
C27_FindingsLostToReadError ==
    /\ last.ev = "read_error"
    /\ Len(walked) = 2
    /\ result.vulnerabilities # <<>>
    /\ ret.kind = "Err"

\* to_markdown's count of the vulnerabilities of one severity.
SeverityCount(vulnerabilities, severity) ==
    Cardinality({i \in DOMAIN vulnerabilities : vulnerabilities[i].severity = severity})

\* C28: every vulnerability the visitor appends has severity Critical or
\* High. In every reachable result no vulnerability is Medium or Low, and
\* in a returned result the Critical and High counts of the report sum to
\* the number of vulnerabilities.
C28_OnlyCriticalAndHigh ==
    /\ \A i \in DOMAIN result.vulnerabilities :
          result.vulnerabilities[i].severity \in {"Critical", "High"}
    /\ (pc = "returned" /\ ret.kind = "Ok") =>
          /\ SeverityCount(ret.result.vulnerabilities, "Medium") = 0
          /\ SeverityCount(ret.result.vulnerabilities, "Low") = 0
          /\ SeverityCount(ret.result.vulnerabilities, "Critical")
               + SeverityCount(ret.result.vulnerabilities, "High")
               = Len(ret.result.vulnerabilities)

\* A run has returned a result with Critical and High vulnerabilities,
\* among them unchecked arithmetic and an unchecked program account.
C28_ReturnedCriticalAndHigh ==
    /\ pc = "returned"
    /\ ret.kind = "Ok"
    /\ SeverityCount(ret.result.vulnerabilities, "Critical") > 0
    /\ SeverityCount(ret.result.vulnerabilities, "High") > 0
    /\ Mentioning(ret.result.vulnerabilities, "Potential arithmetic overflow/underflow") > 0
    /\ Mentioning(ret.result.vulnerabilities, "Unchecked program AccountInfo") > 0

\* ------------------------------------------------------------ positions
NextLine ==
    \/ Analyze
    \/ AnalyzeFileVisitLine
    \/ VisitFileLineItem
    \/ CheckFunction
    \/ CheckFunctionExit
    \/ VisitExpr
    \/ VisitorPanics
    \/ AnalyzeFileDone
    \/ AnalyzeReturn

SpecLine == Init /\ [][NextLine]_vars

\* Where the snippet starts in the text, every occurrence counted.
Occurrences(text, snippet) ==
    {i \in 1..(Len(text) - Len(snippet) + 1) :
        SubSeq(text, i, i + Len(snippet) - 1) = snippet}

\* The line of the snippet's last occurrence in the text.
LineOfLast(text, snippet) ==
    LET occ == Occurrences(text, snippet)
        at  == CHOOSE i \in occ : \A j \in occ : j <= i
    IN 1 + Cardinality({i \in 1..(at - 1) : SubSeq(text, i, i) = "\n"})

\* The line on which the snippet is first written.
LineOfFirst(text, snippet) ==
    LET occ == Occurrences(text, snippet)
        at  == CHOOSE i \in occ : \A j \in occ : i <= j
    IN 1 + Cardinality({i \in 1..(at - 1) : SubSeq(text, i, i) = "\n"})

Findings == result.vulnerabilities \o result.warnings \o result.info
NewFindings == NewVulnerabilities \o NewWarnings \o NewInfo

\* C29: after a call on a node whose snippet occurs in the file text, the
\* current line is 1 plus the number of newlines before the snippet's LAST
\* occurrence; after a call on a node without a snippet, or whose snippet
\* does not occur, the current line is what it was before (0 in a new
\* visitor); a finding added by the call carries the current line, and the
\* column of every finding is 0.
C29_LineOfLastOccurrence ==
    /\ \A i \in DOMAIN Findings : Findings[i].location.column = 0
    /\ (last.ev = "new" /\ visitor.some) => visitor.current_line = 0
    /\ (last.ev \in {"check_function", "check_function_exit", "visit_expr"} /\ visitor.some) =>
          /\ IF last.ev # "check_function_exit"
                 /\ "src" \in DOMAIN last.node
                 /\ Occurrences(last.v.file_content, last.node.src) # {}
              THEN visitor.current_line = LineOfLast(last.v.file_content, last.node.src)
              ELSE visitor.current_line = last.v.current_line
          /\ \A i \in DOMAIN NewFindings :
                NewFindings[i].location =
                    [file |-> visitor.current_file, line |-> visitor.current_line, column |-> 0]

\* In the text whose lines repeat, the call written on lines 2 and 4 was
\* just reported on line 4, after the function was resolved to line 1.
C29_CallReportedOnLaterLine ==
    /\ last.ev = "visit_expr"
    /\ "src" \in DOMAIN last.node
    /\ last.node.src = "invoke(ix)"
    /\ Occurrences(last.v.file_content, last.node.src) # {}
    /\ LineOfFirst(last.v.file_content, last.node.src) = 2
    /\ last.v.current_line = 1
    /\ visitor.current_line = 4
    /\ Len(NewVulnerabilities) > 0
    /\ NewVulnerabilities[1].location.line = 4

\* ------------------------------------------------------ overflow checking
\* The Info items located in the manifest.
ManifestInfo == {i \in DOMAIN result.info : result.info[i].location.file = "Cargo.toml"}

\* C30: the overflow-checking fact is read from the project's manifest
\* when that can be read, whatever the parent's says, from the parent's
\* only when the project's cannot be read, and is false when neither can
\* be read; once analyze() has started with the fact true, its result
\* holds exactly one Info about Cargo.toml, on line 0 and ahead of every
\* other finding.
C30_OverflowFactAndInfo ==
    /\ \A m \in Manifests, n \in Manifests :
          check_for_overflow_checks(m, n) =
              IF m # None THEN ManifestHasFlag(m.val)
              ELSE IF n # None THEN ManifestHasFlag(n.val)
              ELSE FALSE
    /\ (has_overflow_checks /\ pc # "start") =>
          /\ Cardinality(ManifestInfo) = 1
          /\ result.info[1].location = [file |-> "Cargo.toml", line |-> 0, column |-> 0]
          /\ last.ev = "analyze" =>
                /\ result.vulnerabilities = <<>>
                /\ result.warnings = <<>>
                /\ Len(result.info) = 1
    /\ (~has_overflow_checks) => ManifestInfo = {}

====
